---------------------------- MODULE Spec2Model ----------------------------
(***************************************************************************)
(* Turn orchestration engine of the AI Dungeon Master: the master          *)
(* workflow graph of OrchestratorService (initialization pipeline and      *)
(* single-turn gameplay graph with its routers), the checkpoint store the  *)
(* graph is compiled with, the GameplayExecutor behind execute_turn, and   *)
(* the front ends' session loading.                                        *)
(*                                                                         *)
(* Strings whose letter case or whitespace matters are sequences of one-   *)
(* character strings, so that str.lower() and str.strip() are computed.    *)
(***************************************************************************)
EXTENDS Integers, Sequences, FiniteSets, TLC

(***************************************************************************)
(* Bounds of the model                                                     *)
(***************************************************************************)
\* number of supersteps one graph run is followed for
MaxSupersteps == 12
\* number of new-session requests followed over one sessions table
MaxNewSessions == 2
\* length of the session names a user enters
MaxNameLen == 3
\* number of times the judge sends an action back to the resolver
MaxReplays == 2
\* number of add_event calls followed on one SessionMemory
MaxEvents == 22
\* number of execute_turn calls followed in a session history
MaxTurns == 3
\* number of execute_turn calls followed on one executor
MaxCalls == 11
\* number of stage failures followed
MaxFailures == 1
\* number of initialize_world calls followed
MaxInits == 2
\* number of process restarts followed
MaxRestarts == 1
\* number of character concepts requested at most
MaxConcepts == 3
\* number of execute_turn calls begun and not ended at one time
MaxInFlight == 2
\* number of execute_turn calls followed while the director is out of order
MaxOutageCalls == 12
\* number of failed director calls followed while the director is out of order
MaxOutage == 3
\* highest scene counter the scene-transition check is applied to
MaxSceneTurns == 12

(***************************************************************************)
(* Python string helpers                                                   *)
(***************************************************************************)
UpperLetters == <<"A", "C", "E", "I", "K", "N", "O", "Q", "S", "T", "U", "W", "X">>
LowerLetters == <<"a", "c", "e", "i", "k", "n", "o", "q", "s", "t", "u", "w", "x">>
Whitespace == {" ", "\t", "\n"}

\* str.lower() on one character
LowerChar(c) ==
    IF \E i \in 1..Len(UpperLetters) : UpperLetters[i] = c
    THEN LowerLetters[CHOOSE i \in 1..Len(UpperLetters) : UpperLetters[i] = c]
    ELSE c

\* str.upper() on one character (used to build inputs only)
UpperChar(c) ==
    IF \E i \in 1..Len(LowerLetters) : LowerLetters[i] = c
    THEN UpperLetters[CHOOSE i \in 1..Len(LowerLetters) : LowerLetters[i] = c]
    ELSE c

\* str.lower()
lower(s) == [i \in 1..Len(s) |-> LowerChar(s[i])]

\* str.strip(): drop leading and trailing whitespace, keep inner whitespace
strip(s) ==
    LET keep == {i \in 1..Len(s) : s[i] \notin Whitespace}
    IN  IF keep = {} THEN <<>>
        ELSE LET lo == CHOOSE i \in keep : \A j \in keep : i <= j
                 hi == CHOOSE i \in keep : \A j \in keep : j <= i
             IN  SubSeq(s, lo, hi)

(***************************************************************************)
(* response_type values.  A value is missing from the state dict, None, or *)
(* a string.                                                               *)
(***************************************************************************)
WordChars ==
    [ action   |-> <<"a", "c", "t", "i", "o", "n">>,
      question |-> <<"q", "u", "e", "s", "t", "i", "o", "n">>,
      exit     |-> <<"e", "x", "i", "t">>,
      unknown  |-> <<"u", "n", "k", "n", "o", "w", "n">>,
      empty    |-> <<>>,
      actions  |-> <<"a", "c", "t", "i", "o", "n", "s">>,
      act      |-> <<"a", "c", "t">>,
      split    |-> <<"a", "c", " ", "t", "i", "o", "n">>,
      quest    |-> <<"q", "u", "e", "s", "t">> ]

WordNames == DOMAIN WordChars
Casings == {"lower", "upper", "title"}
Paddings == {<<>>, <<" ">>, <<"\t", " ">>, <<"\n">>}

ApplyCasing(w, casing) ==
    CASE casing = "lower" -> w
      [] casing = "upper" -> [i \in 1..Len(w) |-> UpperChar(w[i])]
      [] casing = "title" -> [i \in 1..Len(w) |-> IF i = 1 THEN UpperChar(w[i]) ELSE w[i]]

StrValue(s) == [kind |-> "str", s |-> s]
MissingValue == [kind |-> "missing", s |-> <<>>]
NoneValue == [kind |-> "none", s |-> <<>>]

\* Python truthiness of a response_type value
Truthy(v) == v.kind = "str" /\ v.s # <<>>

\* the inputs of the router: how the value was built, and the value
RouterInputs ==
    { [word |-> "missing", casing |-> "lower", value |-> MissingValue],
      [word |-> "none", casing |-> "lower", value |-> NoneValue] }
    \cup
    { [word |-> w, casing |-> c,
       value |-> StrValue(l \o ApplyCasing(WordChars[w], c) \o r)] :
         w \in WordNames, c \in Casings, l \in Paddings, r \in Paddings }

(***************************************************************************)
(* Routers of the master graph                                             *)
(***************************************************************************)
\* route_dm_plan with the comparison done on the raw value
route_dm_plan_raw(state) ==
    LET response_type == IF state.response_type.kind = "missing"
                         THEN StrValue(WordChars.unknown)
                         ELSE state.response_type
    IN  IF ~Truthy(response_type) THEN "exit_check"
        ELSE IF response_type.s = WordChars.action THEN "action_resolver"
        ELSE IF response_type.s = WordChars.question THEN "lore_builder_question"
        ELSE "exit_check"

route_dm_plan(state) ==
    LET response_type == IF state.response_type.kind = "missing"
                         THEN StrValue(WordChars.unknown)
                         ELSE state.response_type
    IN  IF ~Truthy(response_type) THEN "exit_check"
        ELSE LET response_type_lower == strip(lower(response_type.s))
             IN  IF response_type_lower = WordChars.action THEN "action_resolver"
                 ELSE IF response_type_lower = WordChars.question
                      THEN "lore_builder_question"
                 ELSE IF response_type_lower = WordChars.exit THEN "exit_check"
                 ELSE "exit_check"


\* route_entry: the node the conditional edge after START picks
route_entry(state) ==
    LET world == state.world
    IN  IF world.present /\ world.locations > 0 /\ world.regions > 0
        THEN "dm_planner"
        ELSE "story_architect"

\* dict.get(key, default) on a state dict
Get(state, key, default) == IF key \in DOMAIN state THEN state[key] ELSE default

max_retry_attempts == 2

\* route_judge with the evaluations counted where the code resets the counter
route_judge_counting(state) ==
    LET verdict == state.last_verdict
        retry_count == Get(state, "_retry_count", 0)
        WithCount(n) == [k \in DOMAIN state \cup {"_retry_count"} |->
                            IF k = "_retry_count" THEN n ELSE state[k]]
    IN  IF verdict = "invalid" /\ retry_count < max_retry_attempts
        THEN [next |-> "action_resolver", state |-> WithCount(retry_count + 1)]
        ELSE [next |-> "world_engine_update", state |-> WithCount(retry_count + 1)]

\* route_judge: the node it returns and the dict it leaves behind.  The dict
\* is the router's own argument; the key "_retry_count" is written into it.
route_judge(state) ==
    LET verdict == state.last_verdict
        retry_count == Get(state, "_retry_count", 0)
        WithCount(n) == [k \in DOMAIN state \cup {"_retry_count"} |->
                            IF k = "_retry_count" THEN n ELSE state[k]]
    IN  IF verdict = "valid"
        THEN [next |-> "world_engine_update", state |-> WithCount(0)]
        ELSE IF verdict = "invalid" /\ retry_count < max_retry_attempts
        THEN [next |-> "action_resolver", state |-> WithCount(retry_count + 1)]
        ELSE IF retry_count >= max_retry_attempts
        THEN [next |-> "world_engine_update", state |-> WithCount(0)]
        ELSE [next |-> "world_engine_update", state |-> state]

(***************************************************************************)
(* The master graph: nodes and unconditional edges                         *)
(***************************************************************************)
SetupNodes == {"story_architect", "lore_builder", "world_engine",
               "player_creator", "initial_dm"}
GameplayNodes == {"dm_planner", "action_resolver", "lore_builder_question",
                  "judge", "world_engine_update", "player_creator_update",
                  "director", "dm_outcome", "exit_check"}
Nodes == SetupNodes \cup GameplayNodes

\* the edges of the update path with the director wired straight to END
Successor_skip_outcome(n) ==
    CASE n = "story_architect" -> "lore_builder"
      [] n = "lore_builder" -> "world_engine"
      [] n = "world_engine" -> "player_creator"
      [] n = "player_creator" -> "initial_dm"
      [] n = "initial_dm" -> "__end__"
      [] n = "action_resolver" -> "judge"
      [] n = "world_engine_update" -> "player_creator_update"
      [] n = "player_creator_update" -> "director"
      [] n = "lore_builder_question" -> "director"
      [] n = "director" -> "__end__"
      [] n = "dm_outcome" -> "__end__"
      [] n = "exit_check" -> "__end__"

\* the setup pipeline wired past the character generation
Successor_skip_players(n) ==
    CASE n = "story_architect" -> "lore_builder"
      [] n = "lore_builder" -> "world_engine"
      [] n = "world_engine" -> "initial_dm"
      [] n = "player_creator" -> "initial_dm"
      [] n = "initial_dm" -> "__end__"
      [] n = "action_resolver" -> "judge"
      [] n = "world_engine_update" -> "player_creator_update"
      [] n = "player_creator_update" -> "director"
      [] n = "lore_builder_question" -> "director"
      [] n = "director" -> "dm_outcome"
      [] n = "dm_outcome" -> "__end__"
      [] n = "exit_check" -> "__end__"

\* builder.add_edge(from, to)
Successor(n) ==
    CASE n = "story_architect" -> "lore_builder"
      [] n = "lore_builder" -> "world_engine"
      [] n = "world_engine" -> "player_creator"
      [] n = "player_creator" -> "initial_dm"
      [] n = "initial_dm" -> "__end__"
      [] n = "action_resolver" -> "judge"
      [] n = "world_engine_update" -> "player_creator_update"
      [] n = "player_creator_update" -> "director"
      [] n = "lore_builder_question" -> "director"
      [] n = "director" -> "dm_outcome"
      [] n = "dm_outcome" -> "__end__"
      [] n = "exit_check" -> "__end__"

(***************************************************************************)
(* GameState: the channels of the graph                                    *)
(***************************************************************************)
GameStateKeys == {"setting", "world", "players", "response_type", "last_verdict",
                  "current_action", "last_outcome", "metadata"}

\* the session ids followed
Sessions == {"s1", "s2"}

\* run_game_loop plays the one session selected at its start
SelectedSessions == {"s1"}

\* Setting(player_concepts=["Rogue", "Wizard", "Fighter"]): their number
DefaultConcepts == 3

NewWorld == [present |-> TRUE, locations |-> 0, regions |-> 0]
BuiltWorld == [present |-> TRUE, locations |-> 1, regions |-> 1]

\* initialize_game_state: the state a front end builds for a new session
initialize_game_state(session_id) ==
    [ setting |-> [player_concepts |-> DefaultConcepts],
      world |-> NewWorld,
      players |-> <<>>,
      response_type |-> StrValue(WordChars.unknown),
      last_verdict |-> "None",
      current_action |-> FALSE,
      last_outcome |-> FALSE,
      metadata |-> [session_id |-> session_id, turn |-> 0] ]

\* dict keyed by player id, read back as a list: first occurrences, in order
RECURSIVE UniqueById(_)
UniqueById(ps) ==
    IF ps = <<>> THEN <<>>
    ELSE LET init == UniqueById(SubSeq(ps, 1, Len(ps) - 1))
             last == ps[Len(ps)]
         IN  IF \E i \in 1..Len(init) : init[i] = last THEN init
             ELSE Append(init, last)

\* DungeonMasterAgent.plan_response: the response_type it returns
plan_response(state, is_action, is_question, is_exit) ==
    LET existing == state.response_type
    IN  IF Truthy(existing) /\ existing.s # WordChars.unknown
        THEN existing
        ELSE IF is_action THEN StrValue(WordChars.action)
        ELSE IF is_question THEN StrValue(WordChars.question)
        ELSE IF is_exit THEN StrValue(WordChars.exit)
        ELSE StrValue(WordChars.unknown)

\* JudgeAgent.evaluate_turn: the verdicts it can return
evaluate_turn(state) ==
    IF ~state.current_action \/ ~state.last_outcome
    THEN {"None"}
    ELSE {"valid", "invalid"}


(***************************************************************************)
(* GameplayExecutor: the state behind execute_turn                         *)
(***************************************************************************)
\* state[key] = value on a dict (the key is added when it is missing)
With(state, key, value) ==
    [k \in DOMAIN state \cup {key} |-> IF k = key THEN value ELSE state[k]]

\* PacingMetrics.max_turns_per_scene
max_turns_per_scene == 10
\* SessionMemory.add_event keeps the last 20 recent events
recent_window == 20

\* PacingMetrics(): tension is counted in tenths (0.5 is 5)
PacingMetrics ==
    [turns_in_current_scene |-> 0, max_turns_per_scene |-> max_turns_per_scene,
     current_tension |-> 5, tension_trajectory |-> <<>>]

\* GameplayExecutor.__init__: gameplay_state is None
NoGameplayState ==
    [ initialized |-> FALSE, session_id |-> "s1", turn_number |-> 0,
      player_actions |-> 0, outcome_tokens |-> <<>>, world_state_deltas |-> <<>>,
      pacing |-> PacingMetrics, chronicle |-> <<>>, recent_events |-> <<>>,
      scene_transitions |-> <<>>, dm_directives |-> [x \in {} |-> FALSE] ]

initialize_gameplay_phase(session_id) ==
    [NoGameplayState EXCEPT !.initialized = TRUE, !.session_id = session_id]

\* the turn number with the increment at entry left out
turn_number_kept(n) == n

\* self.gameplay_state.turn_number += 1
next_turn_number(n) == n + 1

\* should_transition_scene with the maximum itself not yet a reason to end
should_transition_after_maximum(pacing) ==
    \/ pacing.turns_in_current_scene > pacing.max_turns_per_scene
    \/ pacing.turns_in_current_scene > 5 /\ pacing.current_tension < 2

\* PacingMetrics.should_transition_scene
should_transition_scene(pacing) ==
    \/ pacing.turns_in_current_scene >= pacing.max_turns_per_scene
    \/ pacing.turns_in_current_scene > 5 /\ pacing.current_tension < 2

\* a scene transition that starts the new scene with an empty recent window
\* and turn 0
step7_new_scene_memory(gs) ==
    LET should_transition == should_transition_scene(gs.pacing)
    IN  [gs EXCEPT !.pacing.turns_in_current_scene =
                       IF should_transition THEN 0 ELSE @,
                   !.recent_events = IF should_transition THEN <<>> ELSE @,
                   !.turn_number = IF should_transition THEN 0 ELSE @,
                   !.scene_transitions = Append(@, should_transition)]

\* _step7_check_scene_transition and the append of its trigger: the scene
\* counter is reset when the scene is to end
step7_check_scene_transition(gs) ==
    LET should_transition == should_transition_scene(gs.pacing)
    IN  [gs EXCEPT !.pacing.turns_in_current_scene =
                       IF should_transition THEN 0 ELSE @,
                   !.scene_transitions = Append(@, should_transition)]

\* add_event with the recent window left to grow
add_event_uncapped(gs, event) ==
    [gs EXCEPT !.recent_events = Append(gs.recent_events, event),
               !.chronicle = Append(gs.chronicle, event)]

\* SessionMemory.add_event
add_event(gs, event) ==
    LET recent == Append(gs.recent_events, event)
    IN  [gs EXCEPT !.recent_events =
                       IF Len(recent) > recent_window
                       THEN SubSeq(recent, Len(recent) - recent_window + 1, Len(recent))
                       ELSE recent,
                   !.chronicle = Append(gs.chronicle, event)]

\* GameplayPhaseState.log_event: the event gets the id
\* evt_<turn_number>_<len(recent_events)> and is added to the memory
log_event(gs) ==
    add_event(gs, [event_id |-> <<"evt", gs.turn_number, Len(gs.recent_events)>>,
                   turn_number |-> gs.turn_number])

RECURSIVE add_events(_, _)
add_events(gs, events) ==
    IF events = <<>> THEN gs
    ELSE add_events(add_event(gs, events[1]), SubSeq(events, 2, Len(events)))

\* the steps of execute_turn with event recording ahead of the director
StepOrder_record_first ==
    <<"step1", "step2", "step3", "step4", "step6", "step5", "step7">>

\* execute_turn: the seven awaited steps in the order of the code
StepOrder == <<"step1", "step2", "step3", "step4", "step5", "step6", "step7">>

\* where execute_turn goes on after a step has returned
after_step(step) ==
    LET k == CHOOSE i \in 1..Len(StepOrder) : StepOrder[i] = step
    IN  IF k < Len(StepOrder) THEN StepOrder[k + 1] ELSE "idle"

\* _step1_generate_actions: the number of actions of the turn
step1_generate_actions(state) ==
    IF state.current_action THEN 1 ELSE Len(state.players)

\* ActionIntentType: the values of the enumeration
ActionIntentType ==
    {"attack", "defend", "cast_spell", "skill_check", "interact", "dialogue",
     "investigate", "move", "help", "dodge", "counter", "unknown"}

\* a difficulty class of 10 whatever the intent
get_dc_always_ten(intent_type) == 10

\* _get_dc_for_intent: dc_map.get(intent_type, 10)
get_dc_for_intent(intent_type) ==
    CASE intent_type = "attack" -> 12
      [] intent_type = "investigate" -> 10
      [] intent_type = "dialogue" -> 11
      [] intent_type = "cast_spell" -> 13
      [] intent_type = "move" -> 8
      [] intent_type = "defend" -> 10
      [] intent_type = "unknown" -> 10
      [] OTHER -> 10

\* max(0, x)
max0(x) == IF x > 0 THEN x ELSE 0

\* damage worked out from the roll whether the DC was met or not
calculate_damage_regardless(intent_type, total, dc, meets_dc) ==
    IF intent_type = "attack" THEN 6 + max0(total - dc)
    ELSE IF intent_type = "cast_spell" THEN 12 + max0(total - dc)
    ELSE 0

\* _calculate_damage
calculate_damage(intent_type, total, dc, meets_dc) ==
    IF ~meets_dc THEN 0
    ELSE IF intent_type = "attack" THEN 6 + max0(total - dc)
    ELSE IF intent_type = "cast_spell" THEN 12 + max0(total - dc)
    ELSE 0

\* the ability scores of a DnDCharacterStats
NoStats == [strength |-> 10, dexterity |-> 10, intelligence |-> 10,
            wisdom |-> 10, charisma |-> 10]

\* _generate_roll_for_intent: the modifier of the performer, who may be
\* missing from the players of the state (player is then None)
ability_modifier(intent_type, player) ==
    IF ~player.found THEN 0
    ELSE CASE intent_type = "attack" -> (player.stats.strength - 10) \div 2
           [] intent_type = "cast_spell" -> (player.stats.intelligence - 10) \div 2
           [] intent_type = "dialogue" -> (player.stats.charisma - 10) \div 2
           [] intent_type = "investigate" -> (player.stats.wisdom - 10) \div 2
           [] intent_type = "move" -> (player.stats.dexterity - 10) \div 2
           [] intent_type = "defend" -> (player.stats.dexterity - 10) \div 2
           [] OTHER -> 0

\* _generate_roll_for_intent: the RollResult of the d20 that came up
generate_roll_for_intent(intent_type, player, d20) ==
    [rolls |-> <<d20>>, modifier |-> ability_modifier(intent_type, player),
     total |-> d20 + ability_modifier(intent_type, player)]

\* _step2_validate_actions, the body of its loop: the ActionOutcomeToken of
\* one action of the turn
validate_action(turn_number, action_idx, action, player, d20) ==
    LET intent_type == action.intent_type
        dc == get_dc_for_intent(intent_type)
        primary_roll == generate_roll_for_intent(intent_type, player, d20)
        meets_dc == primary_roll.total >= dc
    IN  [action_id |-> <<turn_number, action_idx>>,
         intent_type |-> intent_type,
         primary_roll |-> primary_roll,
         difficulty_class |-> dc,
         meets_dc |-> meets_dc,
         damage_dealt |-> calculate_damage(intent_type, primary_roll.total, dc, meets_dc)]

\* what one roll can come to: the DC missed, met without damage, met with damage
RollOutcomes == { [meets_dc |-> FALSE, damage_dealt |-> FALSE],
                  [meets_dc |-> TRUE, damage_dealt |-> FALSE],
                  [meets_dc |-> TRUE, damage_dealt |-> TRUE] }

\* _step2_validate_actions: one token per action, action_id "action_{turn}_{idx}"
step2_validate_actions(turn_number, rolls) ==
    [i \in 1..Len(rolls) |->
        [action_id |-> <<turn_number, i - 1>>,
         meets_dc |-> rolls[i].meets_dc,
         damage_dealt |-> rolls[i].damage_dealt]]

\* _step3_update_world: one change per token that met its DC and dealt damage
step3_update_world(tokens) ==
    LET hit(t) == t.meets_dc /\ t.damage_dealt
        damaging == SelectSeq(tokens, hit)
    IN  [i \in 1..Len(damaging) |-> damaging[i].action_id]

\* directives.get("tension_adjustment", 0) on the dict direct_scene returns,
\* whose keys are "director_directives" and "narrative"
tension_adjustment(directives) == Get(directives, "tension_adjustment", 0)

\* the sum of tension and adjustment taken as it is
unclamped_tension(t) == t

\* min(1.0, max(0.0, current_tension + tension_adjustment)), in tenths
clamp_tension(t) == IF t > 10 THEN 10 ELSE IF t < 0 THEN 0 ELSE t

\* _step5_director_oversight after the director has returned: the tension is
\* adjusted, clamped and appended to the trajectory
step5_update_tension(pacing, directives) ==
    LET tension == clamp_tension(pacing.current_tension
                                 + tension_adjustment(directives))
    IN  [pacing EXCEPT !.current_tension = tension,
                       !.tension_trajectory = Append(@, tension)]

\* event recording that leaves out the tokens that missed their DC
step6_record_successes(turn_number, tokens) ==
    LET met(t) == t.meets_dc
        successes == SelectSeq(tokens, met)
    IN  [i \in 1..Len(successes) |-> [event_id |-> successes[i].action_id,
                                      turn_number |-> turn_number]]

\* _step6_record_events: one event per token, event_id = token.action_id
step6_record_events(turn_number, tokens) ==
    [i \in 1..Len(tokens) |-> [event_id |-> tokens[i].action_id,
                               turn_number |-> turn_number]]

(***************************************************************************)
(* Context readers: SessionMemory.get_context_window and the context hub   *)
(***************************************************************************)
\* xs[start:] of a Python list: a negative start counts from the end, and a
\* start outside the list is clipped to it
PySliceFrom(xs, start) ==
    LET n == Len(xs)
        first == IF start < 0
                 THEN (IF n + start < 0 THEN 0 ELSE n + start)
                 ELSE (IF start > n THEN n ELSE start)
    IN  SubSeq(xs, first + 1, n)

\* SessionMemory.get_context_window: recent_events[-lookback:], [] when empty
get_context_window(recent_events, lookback) ==
    IF recent_events # <<>> THEN PySliceFrom(recent_events, -lookback) ELSE <<>>

\* AgentMessage.to_dict
to_dict(msg) ==
    [sender |-> msg.sender, type |-> msg.message_type, content |-> msg.content,
     requires_response |-> FALSE, targets |-> <<>>]

\* AgentContextHub.get_context_for_agent: message_queue[-limit:] as dicts
get_context_for_agent(message_queue, agent_name, limit) ==
    LET recent == PySliceFrom(message_queue, -limit)
    IN  [i \in 1..Len(recent) |-> to_dict(recent[i])]

\* the default of AgentContextHub(max_history)
default_max_history == 50

\* the agents that send messages, and the message types they use
Senders == {"Story Architect", "Lore Builder"}
MessageType == {"narrative_update", "world_change"}

\* AgentContextHub.__init__
NewHub(max_history) ==
    [message_queue |-> <<>>, agent_memory |-> [a \in Senders |-> <<>>],
     max_history |-> max_history]

\* broadcast that evicts the newest message when the queue is over its length
broadcast_evict_newest(h, message) ==
    LET queue == Append(h.message_queue, message)
    IN  [h EXCEPT !.message_queue =
                      IF Len(queue) > h.max_history
                      THEN SubSeq(queue, 1, Len(queue) - 1) ELSE queue,
                  !.agent_memory[message.sender] = Append(@, message)]

\* AgentContextHub.broadcast: append, remember per sender, pop(0) when over
broadcast(h, message) ==
    LET queue == Append(h.message_queue, message)
    IN  [h EXCEPT !.message_queue =
                      IF Len(queue) > h.max_history THEN Tail(queue) ELSE queue,
                  !.agent_memory[message.sender] = Append(@, message)]

(***************************************************************************)
(* Knowledge graph: KnowledgeGraphService.get_connected and find_path      *)
(***************************************************************************)
\* KnowledgeGraphService.get_connected(entity_id) without a relation filter:
\* for every link in order, its target when the entity is its source, else
\* its source when the entity is its target
RECURSIVE get_connected(_, _)
get_connected(ls, entity_id) ==
    IF ls = <<>> THEN <<>>
    ELSE LET link == ls[1]
             rest == get_connected(Tail(ls), entity_id)
         IN  IF link.source = entity_id THEN <<link.target>> \o rest
             ELSE IF link.target = entity_id THEN <<link.source>> \o rest
             ELSE rest

\* the loop over the neighbours of find_path: each neighbour not yet visited
\* is marked and queued with the path that leads to it
RECURSIVE visit_neighbors(_, _, _, _)
visit_neighbors(neighbors, path, queue, visited) ==
    IF neighbors = <<>> THEN [queue |-> queue, visited |-> visited]
    ELSE LET neighbor == neighbors[1]
         IN  IF neighbor \notin visited
             THEN visit_neighbors(Tail(neighbors), path,
                                  Append(queue, [current |-> neighbor,
                                                 path |-> Append(path, neighbor)]),
                                  visited \cup {neighbor})
             ELSE visit_neighbors(Tail(neighbors), path, queue, visited)

\* the while loop of find_path: depth counts the entries taken off the queue
RECURSIVE find_path_loop(_, _, _, _, _, _)
find_path_loop(ls, end, max_depth, queue, visited, depth) ==
    IF queue = <<>> \/ ~(depth < max_depth) THEN <<>>
    ELSE LET current == queue[1].current
             path == queue[1].path
         IN  IF current = end THEN path
             ELSE LET after == visit_neighbors(get_connected(ls, current), path,
                                               Tail(queue), visited)
                  IN  find_path_loop(ls, end, max_depth, after.queue,
                                     after.visited, depth + 1)

\* KnowledgeGraphService.find_path
find_path(ls, start, end, max_depth) ==
    find_path_loop(ls, end, max_depth, <<[current |-> start, path |-> <<start>>]>>,
                   {start}, 0)

(***************************************************************************)
(* Structured output: the retry loop of get_structured_output              *)
(***************************************************************************)
\* the default of get_structured_output(max_retries)
default_max_retries == 3

\* what one llm.ainvoke can come to: the call raises, the content is no
\* JSON, the JSON fails the validation of output_model, or it passes
Replies == {"model_error", "not_json", "json_invalid", "json_valid"}

\* a loop that makes one attempt more than max_retries
in_range_inclusive(attempt, max_retries) == attempt <= max_retries

\* for attempt in range(max_retries)
in_range(attempt, max_retries) == attempt < max_retries

\* the body of the loop for one reply: "return" when output_model(**data)
\* succeeds; a JSONDecodeError ends in continue, every other exception in the
\* outer except clause, and both go on with the next attempt
attempt_outcome(reply) ==
    CASE reply = "json_valid" -> "return"
      [] reply = "not_json" -> "continue"
      [] reply = "json_invalid" -> "except"
      [] reply = "model_error" -> "except"

(***************************************************************************)
(* State                                                                   *)
(***************************************************************************)
VARIABLES
    rin,             \* router harness: the response_type handed to route_dm_plan
    rout,            \* router harness: the node route_dm_plan returned
    entry,           \* graph run: the input state ainvoke was called with
    node,            \* graph run: the node to run next ("idle" when no run)
    trace,           \* graph run: the nodes executed so far, in order
    chan,            \* graph run: the channel values (GameState)
    thread,          \* graph run: config["configurable"]["thread_id"]
    pending,         \* character fan-out: the work items sent and not finished
    created,         \* character fan-out: work item -> the player it returned
    store,           \* checkpoint store: thread id -> latest checkpoint
    compiled_graph,  \* orchestrator: whether build_pipeline has compiled the graph
    gameplay_state,  \* executor: GameplayExecutor.gameplay_state
    pc,              \* the handler in progress and its position ("idle" when none)
    locals,          \* execute_turn: the local variables of the call in progress
    client,          \* front end: per session, the state dict and loop counter held
    proc,            \* counters of the process history (restarts, calls, ...)
    hist,            \* history: what the last calls started from and returned
    suspended,       \* execute_turn calls waiting at an await: their pc and locals
    session_db,      \* session metadata table: session id -> its row
    hub,             \* AgentContextHub: message_queue, agent_memory, max_history
    links,           \* KnowledgeGraphService.links
    structured,      \* get_structured_output: the loop counter and the calls made
    returned         \* service harnesses: what the last call returned or raised

routerVars == <<rin, rout>>
graphVars == <<entry, node, trace, chan, thread, pending, created>>
fanVars == <<pending, created>>
sessVars == <<compiled_graph, gameplay_state, pc, locals, client, proc, hist,
             suspended, session_db>>
svcVars == <<hub, links, structured, returned>>
vars == <<rin, rout, entry, node, trace, chan, thread, pending, created, store,
          compiled_graph, gameplay_state, pc, locals, client, proc, hist,
          suspended, session_db, hub, links, structured, returned>>

NoCheckpoint == [exists |-> FALSE, values |-> initialize_game_state("s1")]
Checkpoint(values) == [exists |-> TRUE, values |-> values]

RouterIdle == /\ rin = [word |-> "missing", casing |-> "lower", value |-> MissingValue]
              /\ rout = "idle"
GraphIdle == /\ entry = initialize_game_state("s1")
             /\ node = "idle"
             /\ trace = <<>>
             /\ chan = initialize_game_state("s1")
             /\ thread = "s1"
             /\ pending = {}
             /\ created = {}

\* the sessions table of SessionService: no row for the id
NoSessionRow == [exists |-> FALSE, turn_count |-> 0]
NoSessionDb == [s \in Sessions |-> NoSessionRow]

\* SessionService.create_session: INSERT of a row with turn_count 0; the
\* session_id is the primary key, so the table is left as it is when the
\* row exists (sqlite3.IntegrityError)
create_session(db, session_id) ==
    IF db[session_id].exists THEN db
    ELSE [db EXCEPT ![session_id] = [exists |-> TRUE, turn_count |-> 0]]

\* SessionService.update_session: UPDATE ... WHERE session_id = ?
update_session(db, session_id, turn_count) ==
    IF db[session_id].exists
    THEN [db EXCEPT ![session_id].turn_count = turn_count]
    ELSE db

NoLocals == [session |-> "s1", player_actions |-> 0, tokens |-> <<>>,
             state_changes |-> <<>>, narrated |-> FALSE, fallback |-> FALSE,
             directives |-> [director_directives |-> FALSE], phases |-> <<>>,
             caller |-> "none"]
NoClient(s) == [phase |-> "none", turn |-> 0, state |-> initialize_game_state(s)]
NoCall == [session |-> "s1", result |-> "none", stage |-> "none",
           pre_gameplay |-> NoGameplayState,
           pre_state |-> initialize_game_state("s1"),
           streak_turn |-> -1, fresh |-> FALSE,
           pre_db |-> [s \in Sessions |-> NoSessionRow]]
Snapshot(gs) == [turn_number |-> gs.turn_number, pacing |-> gs.pacing,
                 chronicle |-> gs.chronicle]
NoHist == [call |-> NoCall,
           pre_store |-> [s \in Sessions |-> NoCheckpoint],
           completed |-> [s \in Sessions |-> 0],
           lastgood |-> [s \in Sessions |-> Snapshot(NoGameplayState)],
           born |-> [s \in Sessions |-> -1],
           added |-> <<>>,
           resolved |-> <<>>,
           started |-> <<>>,
           broadcasts |-> <<>>]
NoProc == [restarts |-> 0, calls |-> 0, failures |-> 0, inits |-> 0]

\* no call of get_structured_output has been made
NoStructured == [max_retries |-> 0, attempt |-> 0, invoked |-> 0, replies |-> <<>>]

\* no service call has returned
NoReturn == [call |-> "none"]

\* the services as constructed: AgentContextHub(), KnowledgeGraphService()
SvcIdle == /\ hub = NewHub(default_max_history)
           /\ links = <<>>
           /\ structured = NoStructured
           /\ returned = NoReturn

\* a fresh process: OrchestratorService() and GameplayExecutor() constructed
SessIdle == /\ compiled_graph = FALSE
            /\ gameplay_state = NoGameplayState
            /\ pc = "idle"
            /\ locals = NoLocals
            /\ client = [s \in Sessions |-> NoClient(s)]
            /\ proc = NoProc
            /\ hist = NoHist
            /\ suspended = <<>>
            /\ session_db = NoSessionDb
            /\ SvcIdle

(***************************************************************************)
(* Router harness: route_dm_plan applied to every response_type value      *)
(***************************************************************************)
InitRouter ==
    /\ rin \in RouterInputs
    /\ rout = "pending"
    /\ GraphIdle
    /\ SessIdle
    /\ store = [s \in Sessions |-> NoCheckpoint]

ApplyRouteDmPlan ==
    /\ rout = "pending"
    /\ rout' = route_dm_plan([response_type |-> rin.value])
    /\ UNCHANGED <<rin, graphVars, store, sessVars, svcVars>>

NextRouter == ApplyRouteDmPlan

SpecRouter == InitRouter /\ [][NextRouter]_vars

(***************************************************************************)
(* One run of the compiled master graph (compiled_graph.ainvoke).  Every   *)
(* superstep runs one node, applies its update to the channels through the *)
(* reducers, evaluates the conditional edge on the channel values, and     *)
(* writes a checkpoint under the thread id.                                *)
(***************************************************************************)
Running == node \in Nodes /\ Len(trace) < MaxSupersteps

\* one superstep: node n ran, the channels became c, the next node is nxt
Superstep(n, c, nxt) ==
    /\ trace' = Append(trace, n)
    /\ chan' = c
    /\ node' = nxt
    /\ store' = [store EXCEPT ![thread] = Checkpoint(c)]
    /\ pending' = {}
    /\ created' = {}
    /\ UNCHANGED <<entry, thread, routerVars, sessVars, svcVars>>

\* the players channel: Annotated[List[Player], operator.add]
AddPlayers(c, update) == [c EXCEPT !.players = c.players \o update]

\* the input is written to the channels and START's conditional edge is taken
RouteEntryStep ==
    /\ node = "__start__"
    /\ node' = route_entry(chan)
    /\ store' = [store EXCEPT ![thread] = Checkpoint(chan)]
    /\ UNCHANGED <<entry, trace, chan, thread, fanVars, routerVars, sessVars, svcVars>>

StoryArchitect ==
    /\ Running /\ node = "story_architect"
    /\ Superstep("story_architect", chan, Successor("story_architect"))

LoreBuilder ==
    /\ Running /\ node = "lore_builder"
    /\ Superstep("lore_builder", [chan EXCEPT !.world.regions = 1],
                 Successor("lore_builder"))

WorldEngine ==
    /\ Running /\ node = "world_engine"
    /\ \E locs \in {0, 1} :
         Superstep("world_engine",
                   [chan EXCEPT !.world = [present |-> TRUE, locations |-> locs,
                                           regions |-> IF chan.world.present
                                                       THEN chan.world.regions ELSE 1]],
                   Successor("world_engine"))

InitialDm ==
    /\ Running /\ node = "initial_dm"
    /\ Superstep("initial_dm", chan, Successor("initial_dm"))

DmPlanner ==
    /\ Running /\ node = "dm_planner"
    /\ \E is_action \in BOOLEAN, is_question \in BOOLEAN, is_exit \in BOOLEAN :
         LET c == [chan EXCEPT !.response_type =
                       plan_response(chan, is_action, is_question, is_exit)]
         IN  Superstep("dm_planner", c, route_dm_plan(c))

\* resolve_action: without an action only last_outcome is returned; with one,
\* the list of players is returned too and goes through the reducer
ActionResolver ==
    /\ Running /\ node = "action_resolver"
    /\ LET c == [chan EXCEPT !.last_outcome = TRUE]
       IN  Superstep("action_resolver",
                     IF chan.current_action
                     THEN AddPlayers(c, UniqueById(chan.players))
                     ELSE c,
                     Successor("action_resolver"))

Judge ==
    /\ Running /\ node = "judge"
    /\ \E verdict \in evaluate_turn(chan) :
         LET c == [chan EXCEPT !.last_verdict = verdict]
         IN  Superstep("judge", c, route_judge(c).next)

LoreBuilderQuestion ==
    /\ Running /\ node = "lore_builder_question"
    /\ Superstep("lore_builder_question", chan, Successor("lore_builder_question"))

WorldEngineUpdate ==
    /\ Running /\ node = "world_engine_update"
    /\ Superstep("world_engine_update", chan, Successor("world_engine_update"))

\* update_players returns {"players": players}
PlayerCreatorUpdate ==
    /\ Running /\ node = "player_creator_update"
    /\ Superstep("player_creator_update", AddPlayers(chan, chan.players),
                 Successor("player_creator_update"))

Director ==
    /\ Running /\ node = "director"
    /\ Superstep("director", chan, Successor("director"))

DmOutcome ==
    /\ Running /\ node = "dm_outcome"
    /\ Superstep("dm_outcome", chan, Successor("dm_outcome"))

\* _exit_check_node returns the whole state it was given
ExitCheck ==
    /\ Running /\ node = "exit_check"
    /\ Superstep("exit_check", AddPlayers(chan, chan.players), Successor("exit_check"))

\* a node raises: the run is aborted, the last checkpoint stays in the store
StageRaises ==
    /\ Running
    /\ node' = "error"
    /\ UNCHANGED <<entry, trace, chan, thread, store, fanVars, routerVars, sessVars, svcVars>>


(***************************************************************************)
(* player_creator: the character fan-out of PlayerProxyAgent.  route_step  *)
(* sends one create_single_character work item per concept; the work items *)
(* finish in any order and each returns a one-element players list.  The   *)
(* graph applies the returned lists in the order of the work items.        *)
(***************************************************************************)
\* ids the model may put into PlayerGenInput.id
LlmIds == {"hero"}

GeneratedId(i) == [src |-> "uuid", v |-> i, name |-> "player"]
LlmId(x) == [src |-> "llm", v |-> 0, name |-> x]

\* final_id = gen_data.id if gen_data.id else f"player_{uuid.uuid4().hex[:8]}"
\* (gen_id "" stands for None; the uuid prefix of work item i is unique to it)
final_id(gen_id, i) == IF gen_id # "" THEN LlmId(gen_id) ELSE GeneratedId(i)

\* route_step with an empty roster: the work items it returns
route_step_sends(state) == 1..state.setting.player_concepts

PlayerCreatorDispatch ==
    /\ Running /\ node = "player_creator"
    /\ chan.players = <<>>
    /\ pending = {} /\ created = {}
    /\ route_step_sends(chan) # {}
    /\ pending' = route_step_sends(chan)
    /\ UNCHANGED <<entry, node, trace, chan, thread, created, store, routerVars, sessVars, svcVars>>

\* one work item finishes and returns {"players": [final_player]}
CreateSingleCharacter ==
    /\ Running /\ node = "player_creator"
    /\ \E i \in pending, gen_id \in LlmIds \cup {""} :
         /\ created' = created \cup {[item |-> i, player |-> final_id(gen_id, i)]}
         /\ pending' = pending \ {i}
    /\ UNCHANGED <<entry, node, trace, chan, thread, store, routerVars, sessVars, svcVars>>

\* every work item has returned: the one-element lists are appended to the
\* players channel in the order of the work items
PlayerCreatorJoin ==
    /\ Running /\ node = "player_creator"
    /\ pending = {}
    /\ \/ created # {}
       \/ chan.players = <<>> /\ route_step_sends(chan) = {}
    /\ Superstep("player_creator",
                 AddPlayers(chan, [i \in 1..Cardinality(created) |->
                                     (CHOOSE c \in created : c.item = i).player]),
                 Successor("player_creator"))

\* route_step with a roster already present: update_players or simulate_action,
\* and the agent graph's players come back through the reducer
PlayerCreatorExisting ==
    /\ Running /\ node = "player_creator"
    /\ chan.players # <<>>
    /\ pending = {} /\ created = {}
    /\ Superstep("player_creator",
                 AddPlayers(chan, IF chan.last_outcome
                                  THEN chan.players \o chan.players
                                  ELSE chan.players),
                 Successor("player_creator"))

(***************************************************************************)
(* Specification of one graph run on any input state                       *)
(***************************************************************************)
Roster == <<GeneratedId(1), GeneratedId(2)>>

\* response_type values a caller may hand in
InputResponseTypes ==
    { r.value : r \in { x \in RouterInputs :
                          /\ x.word \in {"missing", "action", "question", "exit",
                                         "unknown", "empty", "act"}
                          /\ x.casing \in {"lower", "title"}
                          /\ \/ x.word \in {"missing", "empty"}
                             \/ Len(x.value.s) <= Len(WordChars[x.word]) + 1 } }

GraphInputs ==
    { [initialize_game_state("s1") EXCEPT !.setting.player_concepts = n, !.world = w] :
        n \in 1..MaxConcepts,
        w \in {NewWorld, [present |-> FALSE, locations |-> 0, regions |-> 0],
               [present |-> TRUE, locations |-> 0, regions |-> 1]} }
    \cup
    { [initialize_game_state("s1") EXCEPT !.world = BuiltWorld, !.players = Roster,
                                           !.response_type = rt,
                                           !.current_action = a] :
        rt \in InputResponseTypes, a \in BOOLEAN }

InitGraph ==
    /\ RouterIdle
    /\ entry \in GraphInputs
    /\ node = "__start__"
    /\ trace = <<>>
    /\ chan = entry
    /\ thread = "s1"
    /\ pending = {}
    /\ created = {}
    /\ SessIdle
    /\ store = [s \in Sessions |-> NoCheckpoint]

NextSetup ==
    \/ RouteEntryStep
    \/ StoryArchitect
    \/ LoreBuilder
    \/ WorldEngine
    \/ PlayerCreatorDispatch
    \/ CreateSingleCharacter
    \/ PlayerCreatorJoin
    \/ InitialDm
    \/ StageRaises

NextGameplay ==
    \/ DmPlanner
    \/ ActionResolver
    \/ Judge
    \/ LoreBuilderQuestion
    \/ WorldEngineUpdate
    \/ PlayerCreatorUpdate
    \/ Director
    \/ DmOutcome
    \/ ExitCheck

NextGraph == NextSetup \/ NextGameplay

SpecGraph == InitGraph /\ [][NextGraph]_vars


(***************************************************************************)
(* initialize_world: the front end builds the state of a new game and the  *)
(* orchestrator runs the master graph on it under the session's thread id  *)
(***************************************************************************)
InitializeWorld(s) ==
    /\ pc = "idle" /\ node = "idle"
    /\ client[s].phase = "none"
    /\ proc.inits < MaxInits
    /\ LET state == initialize_game_state(s)
           clean_state == [state EXCEPT !.last_outcome = FALSE,
                                        !.players = <<>>,
                                        !.response_type = StrValue(WordChars.unknown)]
       IN  /\ entry' = clean_state
           \* the input goes through the reducers onto the thread's checkpoint
           /\ chan' = IF store[s].exists
                      THEN AddPlayers([clean_state EXCEPT
                                          !.players = store[s].values.players],
                                      clean_state.players)
                      ELSE clean_state
           /\ client' = [client EXCEPT ![s] = [phase |-> "starting", turn |-> 0,
                                               state |-> state]]
    /\ node' = "__start__"
    /\ thread' = s
    /\ trace' = <<>>
    /\ pending' = {}
    /\ created' = {}
    /\ compiled_graph' = TRUE
    /\ pc' = "init"
    /\ proc' = [proc EXCEPT !.inits = @ + 1]
    /\ hist' = [hist EXCEPT !.pre_store[s] = store[s]]
    /\ UNCHANGED <<svcVars, routerVars, suspended, session_db, store, gameplay_state, locals>>

\* ainvoke returned: the gameplay phase is initialized, final_state is returned
InitializeWorldReturns ==
    /\ pc = "init" /\ node = "__end__"
    /\ gameplay_state' = initialize_gameplay_phase(thread)
    \* the front end goes on with session_service.create_session
    /\ session_db' = create_session(session_db, thread)
    /\ client' = [client EXCEPT ![thread] =
                    [phase |-> IF session_db[thread].exists
                               THEN "create_failed" ELSE "playing",
                     turn |-> 0, state |-> chan]]
    /\ hist' = [hist EXCEPT
                  !.lastgood[thread] = Snapshot(initialize_gameplay_phase(thread)),
                  !.born[thread] = proc.restarts,
                  !.completed[thread] = 0]
    /\ node' = "idle"
    /\ pc' = "idle"
    /\ UNCHANGED <<svcVars, routerVars, suspended, entry, trace, chan, thread, fanVars, store,
                   compiled_graph, locals, proc>>

\* ainvoke raised: RuntimeError("Failed to initialize world") reaches the caller
InitializeWorldFails ==
    /\ pc = "init" /\ node = "error"
    /\ client' = [client EXCEPT ![thread].phase = "init_failed"]
    /\ node' = "idle"
    /\ pc' = "idle"
    /\ UNCHANGED <<svcVars, routerVars, suspended, session_db, entry, trace, chan, thread, fanVars, store,
                   compiled_graph, gameplay_state, locals, proc, hist>>

(***************************************************************************)
(* execute_turn: OrchestratorService.execute_turn hands the caller's state *)
(* dict to GameplayExecutor.execute_turn, which works on that dict and on  *)
(* its own gameplay_state                                                  *)
(***************************************************************************)
Playing(s) == client[s].phase \in {"playing", "resumed"}

\* entry of the call: the guard on gameplay_state and the turn increment
ExecuteTurnBegin(s, state, caller) ==
    /\ compiled_graph' = TRUE
    /\ locals' = [NoLocals EXCEPT !.session = s, !.caller = caller]
    /\ proc' = [proc EXCEPT !.calls = @ + 1]
    /\ hist' = [hist EXCEPT !.call =
                  [session |-> s,
                   result |-> "running",
                   stage |-> IF gameplay_state.initialized THEN "none" ELSE "entry",
                   pre_gameplay |-> gameplay_state,
                   pre_state |-> state,
                   streak_turn |-> IF hist.call.result = "ok"
                                   THEN gameplay_state.turn_number ELSE -1,
                   fresh |-> /\ client[s].phase = "resumed"
                             /\ hist.born[s] < proc.restarts,
                   pre_db |-> session_db]]
    /\ IF gameplay_state.initialized
       THEN /\ gameplay_state' = [gameplay_state EXCEPT
                                    !.turn_number = next_turn_number(@)]
            /\ pc' = StepOrder[1]
       ELSE /\ UNCHANGED gameplay_state
            /\ pc' = "raised"

\* one pass of the loop of run_game_loop up to the call of execute_turn
MainLoopTurn(s) ==
    /\ pc = "idle" /\ node = "idle"
    /\ Playing(s)
    /\ client[s].state.players # <<>>
    /\ proc.calls < MaxTurns
    /\ LET turn == client[s].turn + 1
           state == [client[s].state EXCEPT
                        !.metadata.turn = turn,
                        !.current_action = TRUE,
                        !.response_type = StrValue(WordChars.action),
                        !.last_outcome = FALSE,
                        !.last_verdict = "None"]
       IN  /\ client' = [client EXCEPT ![s] = [phase |-> "playing", turn |-> turn,
                                               state |-> state]]
           /\ ExecuteTurnBegin(s, state, "main")
    /\ UNCHANGED <<svcVars, routerVars, suspended, session_db, graphVars, store>>

\* execute_turn called with the state the caller holds, as it is
ExecuteTurnCall(s) ==
    /\ pc = "idle" /\ node = "idle"
    /\ Playing(s)
    /\ ExecuteTurnBegin(s, client[s].state, "none")
    /\ UNCHANGED <<svcVars, routerVars, suspended, session_db, graphVars, store, client>>

\* step 1: the actions of the turn, kept in gameplay_state.player_actions
Step1Actions ==
    /\ pc = "step1"
    /\ LET n == step1_generate_actions(client[locals.session].state)
       IN  /\ locals' = [locals EXCEPT !.player_actions = n,
                                       !.phases = Append(@, "step1")]
           /\ gameplay_state' = [gameplay_state EXCEPT !.player_actions = n]
    /\ pc' = after_step("step1")
    /\ UNCHANGED <<svcVars, routerVars, suspended, session_db, graphVars, store, compiled_graph, client, proc, hist>>

\* step 2: one roll and one token per action; the tokens are kept in
\* gameplay_state.outcome_tokens and written into the caller's dict
Step2Validate ==
    /\ pc = "step2"
    /\ LET s == locals.session
       IN  \E rolls \in [1..locals.player_actions -> RollOutcomes] :
             LET tokens == step2_validate_actions(gameplay_state.turn_number, rolls)
             IN  /\ locals' = [locals EXCEPT !.tokens = tokens,
                                             !.phases = Append(@, "step2")]
                 /\ gameplay_state' = [gameplay_state EXCEPT !.outcome_tokens = tokens]
                 /\ client' = [client EXCEPT ![s].state =
                                 With(@, "outcome_tokens", tokens)]
    /\ pc' = after_step("step2")
    /\ UNCHANGED <<svcVars, routerVars, suspended, session_db, graphVars, store, compiled_graph, proc, hist>>

\* step 3: the world changes of the tokens, kept in
\* gameplay_state.world_state_deltas and written into the caller's dict
Step3World ==
    /\ pc = "step3"
    /\ LET s == locals.session
           changes == step3_update_world(locals.tokens)
       IN  /\ locals' = [locals EXCEPT !.state_changes = changes,
                                       !.phases = Append(@, "step3")]
           /\ gameplay_state' = [gameplay_state EXCEPT !.world_state_deltas = changes]
           /\ client' = [client EXCEPT ![s].state =
                           With(@, "last_world_changes", changes)]
    /\ pc' = after_step("step3")
    /\ UNCHANGED <<svcVars, routerVars, suspended, session_db, graphVars, store, compiled_graph, proc, hist>>

\* what a call of the narrator can come to: it returns, it raises an
\* AttributeError or a TypeError, or it raises an exception of another type
NarratorOutcomes == {"returns", "AttributeError", "TypeError", "Exception"}

\* except (AttributeError, TypeError) around narrate_outcome_with_tokens
caught_by_step4(outcome) == outcome \in {"AttributeError", "TypeError"}

\* step 4: dm.narrate_outcome_with_tokens is called; an AttributeError or a
\* TypeError that it raises is caught and dm.narrate_outcome is called in its
\* place; what else is raised, and what the second call raises, leaves
\* execute_turn
Step4Narrate ==
    /\ pc = "step4"
    /\ \E first \in NarratorOutcomes, second \in {"returns", "Exception"} :
         LET raised == first # "returns"
             fallback == caught_by_step4(first)
             ok == ~raised \/ (fallback /\ second = "returns")
         IN  /\ raised => proc.failures < MaxFailures
             /\ proc' = [proc EXCEPT !.failures = IF raised THEN @ + 1 ELSE @]
             /\ hist' = [hist EXCEPT !.call.stage = IF raised THEN "dm" ELSE @]
             /\ locals' = [locals EXCEPT !.narrated = ok,
                                         !.fallback = raised /\ ok,
                                         !.phases = Append(@, "step4")]
             /\ pc' = IF ok THEN after_step("step4") ELSE "raised"
    /\ UNCHANGED <<svcVars, routerVars, suspended, session_db, graphVars, store, compiled_graph, gameplay_state,
                   client>>

\* what DirectorAgent.direct_scene returns
DirectorReturns ==
    { [director_directives |-> [tension_adjustment |-> 3], narrative |-> TRUE] }

\* what a director of any kind can return: a dict with or without a
\* "tension_adjustment" of its own, small or large, in tenths
AnyDirectorReturns ==
    DirectorReturns \cup
    { [tension_adjustment |-> t] : t \in {-1000, 4, 1000} }

\* step 5: the scene counter is incremented, then the director is called; it
\* returns one of the given dicts or raises, as long as fewer than the given
\* number of stage failures have been followed
Step5Director(returns, failures_followed) ==
    /\ pc = "step5"
    /\ LET counted == [gameplay_state EXCEPT !.pacing.turns_in_current_scene = @ + 1]
       IN  \/ \E directives \in returns :
                /\ gameplay_state' =
                     [counted EXCEPT
                        !.pacing = step5_update_tension(@, directives),
                        !.dm_directives = directives]
                /\ locals' = [locals EXCEPT !.directives = directives,
                                            !.phases = Append(@, "step5")]
                /\ pc' = after_step("step5")
                /\ UNCHANGED <<proc, hist>>
           \/ /\ proc.failures < failures_followed
              /\ gameplay_state' = counted
              /\ pc' = "raised"
              /\ proc' = [proc EXCEPT !.failures = @ + 1]
              /\ hist' = [hist EXCEPT !.call.stage = "director"]
              /\ locals' = [locals EXCEPT !.phases = Append(@, "step5")]
    /\ UNCHANGED <<svcVars, routerVars, suspended, session_db, graphVars, store, compiled_graph, client>>

\* step 6: one event per token goes into the session memory
Step6Record ==
    /\ pc = "step6"
    /\ gameplay_state' =
         add_events(gameplay_state,
                    step6_record_events(gameplay_state.turn_number, locals.tokens))
    /\ locals' = [locals EXCEPT !.phases = Append(@, "step6")]
    /\ pc' = after_step("step6")
    /\ UNCHANGED <<svcVars, routerVars, suspended, session_db, graphVars, store, compiled_graph, client, proc, hist>>

\* what the front end does with the value execute_turn returned.  main
\* unpacks the tuple and calls update_session with its turn counter;
\* handle_message takes the tuple for the state, and its state.get raises
\* AttributeError before update_session is reached
front_end_after_turn(db, caller, session_id, turn) ==
    IF caller = "main" THEN update_session(db, session_id, turn)
    ELSE db

\* step 7 and the return: scene transition, the caller's dict gets the
\* outcome, the directives and the turn number, and the call returns
Step7Return ==
    /\ pc = "step7"
    /\ LET s == locals.session
           gs == step7_check_scene_transition(gameplay_state)
           state == [With(client[s].state, "director_directives", locals.directives)
                        EXCEPT !.last_outcome = TRUE,
                               !.metadata.turn = gs.turn_number]
       IN  /\ gameplay_state' = gs
           /\ client' = [client EXCEPT ![s].state = state]
           /\ hist' = [hist EXCEPT !.call.result = "ok",
                                   !.completed[s] = @ + 1,
                                   !.lastgood[s] = Snapshot(gs)]
    /\ session_db' = front_end_after_turn(session_db, locals.caller, locals.session,
                                          client[locals.session].turn)
    /\ locals' = [locals EXCEPT !.phases = Append(@, "step7")]
    /\ pc' = after_step("step7")
    /\ UNCHANGED <<svcVars, routerVars, suspended, graphVars, store, compiled_graph, proc>>

\* the exception leaves execute_turn as RuntimeError("Failed to execute turn");
\* the game loop reports it and goes on with the state dict it holds
TurnRaised ==
    /\ pc = "raised"
    /\ hist' = [hist EXCEPT !.call.result = "raised"]
    /\ pc' = "idle"
    /\ UNCHANGED <<svcVars, routerVars, suspended, session_db, graphVars, store, compiled_graph, gameplay_state,
                   locals, client, proc>>

(***************************************************************************)
(* Process restart and session loading                                     *)
(***************************************************************************)
\* the process ends and a new one starts: what is in memory is gone, the
\* checkpoint database stays
Restart ==
    /\ pc = "idle" /\ node = "idle"
    /\ proc.restarts < MaxRestarts
    /\ compiled_graph' = FALSE
    /\ gameplay_state' = NoGameplayState
    /\ locals' = NoLocals
    /\ client' = [s \in Sessions |-> NoClient(s)]
    /\ proc' = [proc EXCEPT !.restarts = @ + 1]
    /\ hist' = [hist EXCEPT !.call = NoCall]
    /\ entry' = initialize_game_state("s1")
    /\ chan' = initialize_game_state("s1")
    /\ trace' = <<>>
    /\ thread' = "s1"
    /\ UNCHANGED <<svcVars, routerVars, suspended, session_db, node, fanVars, store, pc>>

Resumed(values) == [phase |-> "resumed", turn |-> values.metadata.turn,
                    state |-> values]

\* main.load_session: None without a compiled graph or without a snapshot
LoadSessionMain(s) ==
    /\ pc = "idle" /\ node = "idle"
    /\ client[s].phase = "none"
    /\ client' = [client EXCEPT ![s] =
                    IF ~compiled_graph THEN [@ EXCEPT !.phase = "load_none"]
                    ELSE IF ~store[s].exists THEN [@ EXCEPT !.phase = "load_none"]
                    ELSE Resumed(store[s].values)]
    /\ UNCHANGED <<svcVars, routerVars, suspended, session_db, graphVars, store, compiled_graph, gameplay_state,
                   pc, locals, proc, hist>>

\* chainlit_app.load_session: builds the pipeline, ValueError without a snapshot
LoadSessionChainlit(s) ==
    /\ pc = "idle" /\ node = "idle"
    /\ client[s].phase = "none"
    /\ compiled_graph' = TRUE
    /\ client' = [client EXCEPT ![s] =
                    IF ~store[s].exists THEN [@ EXCEPT !.phase = "load_failed"]
                    ELSE Resumed(store[s].values)]
    /\ UNCHANGED <<svcVars, routerVars, suspended, session_db, graphVars, store, gameplay_state, pc, locals,
                   proc, hist>>

(***************************************************************************)
(* Specification of the session lifecycle: new games, turns, restarts and  *)
(* session loading over one checkpoint store                               *)
(***************************************************************************)
Init ==
    /\ RouterIdle
    /\ GraphIdle
    /\ SessIdle
    /\ store = [s \in Sessions |-> NoCheckpoint]

NextTurnSteps ==
    \/ Step1Actions
    \/ Step2Validate
    \/ Step3World
    \/ Step4Narrate
    \/ Step5Director(DirectorReturns, MaxFailures)
    \/ Step6Record
    \/ Step7Return
    \/ TurnRaised

NextSession ==
    \/ \E s \in SelectedSessions : InitializeWorld(s)
    \/ InitializeWorldReturns
    \/ InitializeWorldFails
    \/ \E s \in SelectedSessions : MainLoopTurn(s)
    \/ Restart
    \/ \E s \in SelectedSessions : LoadSessionMain(s)
    \/ \E s \in SelectedSessions : LoadSessionChainlit(s)

Next == NextSetup \/ PlayerCreatorExisting \/ NextSession \/ NextTurnSteps

Spec == Init /\ [][Next]_vars

(***************************************************************************)
(* Specification of one executor: the gameplay phase is initialized for a  *)
(* session and execute_turn is called again and again                      *)
(***************************************************************************)
TurnInputs ==
    { [initialize_game_state("s1") EXCEPT !.world = BuiltWorld,
                                           !.players = SubSeq(Roster, 1, n),
                                           !.current_action = a] :
        n \in 1..2, a \in BOOLEAN }

\* the executor after initialize_gameplay_phase, with a state dict of inputs
ExecutorReady(inputs) ==
    /\ RouterIdle
    /\ GraphIdle
    /\ compiled_graph = TRUE
    /\ gameplay_state = initialize_gameplay_phase("s1")
    /\ pc = "idle"
    /\ locals = NoLocals
    /\ suspended = <<>>
    /\ session_db = create_session(NoSessionDb, "s1")
    /\ SvcIdle
    /\ \E state \in inputs :
         /\ client = [s \in Sessions |->
                        IF s = "s1" THEN [phase |-> "playing", turn |-> 0,
                                          state |-> state]
                        ELSE NoClient(s)]
         /\ store = [s \in Sessions |->
                       IF s = "s1" THEN Checkpoint(state) ELSE NoCheckpoint]
    /\ proc = NoProc
    /\ hist = [NoHist EXCEPT !.born["s1"] = 0,
                             !.lastgood["s1"] =
                                 Snapshot(initialize_gameplay_phase("s1"))]

InitTurns == ExecutorReady(TurnInputs)

NextTurns ==
    \/ \E s \in Sessions : proc.calls < MaxCalls /\ ExecuteTurnCall(s)
    \/ NextTurnSteps

SpecTurns == InitTurns /\ [][NextTurns]_vars

(***************************************************************************)
(* Specification of execute_turn on states of every kind: with and without *)
(* players, with a built world and with the world of a new state dict      *)
(***************************************************************************)
AnyTurnInputs ==
    { [initialize_game_state("s1") EXCEPT !.world = w,
                                           !.players = SubSeq(Roster, 1, n),
                                           !.current_action = a] :
        w \in {NewWorld, BuiltWorld}, n \in 0..2, a \in BOOLEAN }

InitAnyTurn == ExecutorReady(AnyTurnInputs)

NextAnyTurn ==
    \/ \E s \in Sessions : proc.calls < MaxTurns /\ ExecuteTurnCall(s)
    \/ NextTurnSteps

SpecAnyTurn == InitAnyTurn /\ [][NextAnyTurn]_vars

(***************************************************************************)
(* Specification of the chat front end: every message and every suggestion *)
(* click runs handle_message as a task of its own on the one event loop;   *)
(* a task gives way to the others where it awaits a model call             *)
(***************************************************************************)
\* the steps of execute_turn that await a call of a language model
AwaitPoints == {"step4", "step5"}

\* the execute_turn calls that have begun and not ended
InFlight == Len(suspended) + (IF pc = "idle" THEN 0 ELSE 1)

\* handle_message (also reached from on_suggestion_click): the action is put
\* into the session's dict and execute_turn is called; nothing holds the
\* message back while an earlier call waits for the narrator or the director
HandleMessage(s) ==
    /\ node = "idle"
    /\ pc \in {"idle"} \cup AwaitPoints
    /\ InFlight < MaxInFlight
    /\ Playing(s)
    /\ client[s].state.players # <<>>
    /\ proc.calls < MaxTurns
    /\ LET state == [client[s].state EXCEPT
                        !.current_action = TRUE,
                        !.response_type = StrValue(WordChars.action),
                        !.last_outcome = FALSE,
                        !.last_verdict = "None"]
       IN  /\ client' = [client EXCEPT ![s].state = state]
           /\ ExecuteTurnBegin(s, state, "chainlit")
    /\ suspended' = IF pc = "idle" THEN suspended
                    ELSE Append(suspended, [pc |-> pc, locals |-> locals])
    /\ UNCHANGED <<svcVars, routerVars, graphVars, store, session_db>>

\* the event loop goes on with a call whose awaited model call has returned
ResumeSuspended ==
    /\ pc \in {"idle"} \cup AwaitPoints
    /\ \E i \in 1..Len(suspended) :
         LET others == SubSeq(suspended, 1, i - 1) \o
                       SubSeq(suspended, i + 1, Len(suspended))
         IN  /\ pc' = suspended[i].pc
             /\ locals' = suspended[i].locals
             /\ suspended' = IF pc = "idle" THEN others
                             ELSE Append(others, [pc |-> pc, locals |-> locals])
    /\ UNCHANGED <<svcVars, routerVars, graphVars, store, compiled_graph, gameplay_state,
                   client, proc, hist, session_db>>

FrontEndInputs ==
    { [initialize_game_state("s1") EXCEPT !.world = BuiltWorld,
                                           !.players = SubSeq(Roster, 1, n)] :
        n \in 1..2 }

InitFrontEnd == ExecutorReady(FrontEndInputs)

NextFrontEnd ==
    \/ \E s \in Sessions : HandleMessage(s)
    \/ ResumeSuspended
    \/ NextTurnSteps

SpecFrontEnd == InitFrontEnd /\ [][NextFrontEnd]_vars

(***************************************************************************)
(* Specification of two chat sessions served by the one orchestrator of    *)
(* the process: the first is in play, the second starts a new game, and    *)
(* both send messages, one call at a time                                  *)
(***************************************************************************)
InitSessions == ExecutorReady(FrontEndInputs)

NextSessions ==
    \/ \E s \in Sessions : InitializeWorld(s)
    \/ NextSetup
    \/ InitializeWorldReturns
    \/ InitializeWorldFails
    \/ \E s \in Sessions : pc = "idle" /\ HandleMessage(s)
    \/ NextTurnSteps

SpecSessions == InitSessions /\ [][NextSessions]_vars

(***************************************************************************)
(* Specification of the executor with a director of any kind               *)
(***************************************************************************)
InitPacing == ExecutorReady(FrontEndInputs)

NextPacing ==
    \/ \E s \in Sessions : proc.calls < MaxTurns /\ ExecuteTurnCall(s)
    \/ Step1Actions
    \/ Step2Validate
    \/ Step3World
    \/ Step4Narrate
    \/ Step5Director(AnyDirectorReturns, MaxFailures)
    \/ Step6Record
    \/ Step7Return
    \/ TurnRaised

SpecPacing == InitPacing /\ [][NextPacing]_vars

(***************************************************************************)
(* Specification of the executor while the director is out of order: its   *)
(* call raises turn after turn                                             *)
(***************************************************************************)
OutageInputs ==
    { [initialize_game_state("s1") EXCEPT !.world = BuiltWorld,
                                           !.players = SubSeq(Roster, 1, 1),
                                           !.current_action = TRUE] }

InitOutage == ExecutorReady(OutageInputs)

NextOutage ==
    \/ \E s \in Sessions : proc.calls < MaxOutageCalls /\ ExecuteTurnCall(s)
    \/ Step1Actions
    \/ Step2Validate
    \/ Step3World
    \/ Step4Narrate
    \/ Step5Director(DirectorReturns, MaxOutage)
    \/ Step6Record
    \/ Step7Return
    \/ TurnRaised

SpecOutage == InitOutage /\ [][NextOutage]_vars

(***************************************************************************)
(* Specification of the session memory: add_event is called again and      *)
(* again on the memory of one session, for events of successive turns      *)
(***************************************************************************)
InitMemory ==
    /\ RouterIdle
    /\ GraphIdle
    /\ store = [s \in Sessions |-> NoCheckpoint]
    /\ compiled_graph = FALSE
    /\ \E turn \in 1..MaxTurns :
         gameplay_state = [initialize_gameplay_phase("s1") EXCEPT !.turn_number = turn]
    /\ hist = NoHist
    /\ pc = "idle"
    /\ locals = NoLocals
    /\ client = [s \in Sessions |-> NoClient(s)]
    /\ proc = NoProc
    /\ suspended = <<>>
    /\ session_db = create_session(NoSessionDb, "s1")
    /\ SvcIdle

\* memory.add_event(event) for an event of the turn
AddEvent ==
    /\ Len(hist.added) < MaxEvents
    /\ LET event == [event_id |-> <<gameplay_state.turn_number, Len(hist.added)>>,
                     turn_number |-> gameplay_state.turn_number]
       IN  /\ gameplay_state' = add_event(gameplay_state, event)
           /\ hist' = [hist EXCEPT !.added = Append(@, event)]
    /\ UNCHANGED <<svcVars, routerVars, suspended, session_db, graphVars, store, compiled_graph, pc,
                   locals, client, proc>>

\* the turn number moves on between two events
NextTurnOfMemory ==
    /\ gameplay_state.turn_number < MaxTurns
    /\ gameplay_state' = [gameplay_state EXCEPT !.turn_number = next_turn_number(@)]
    /\ UNCHANGED <<svcVars, routerVars, suspended, session_db, graphVars, store, compiled_graph, pc,
                   locals, client, proc, hist>>

NextMemory == AddEvent \/ NextTurnOfMemory

SpecMemory == InitMemory /\ [][NextMemory]_vars

(***************************************************************************)
(* Specification of action resolution: one action of every intent type, by *)
(* a performer of every kind, is resolved with every face of the d20       *)
(***************************************************************************)
\* random.randint(1, 20)
D20 == 1..20

\* ability scores of the performer: the lowest, the default and two higher
AbilityScores == {1, 10, 15, 20}

\* the action handed to step 2 and the performer looked up in the players
ResolveInputs ==
    { [action |-> [intent_type |-> intent_type],
       player |-> [found |-> found,
                   stats |-> [ability \in DOMAIN NoStats |-> score]]] :
        intent_type \in ActionIntentType, found \in BOOLEAN,
        score \in AbilityScores }

InitResolve ==
    /\ RouterIdle
    /\ GraphIdle
    /\ store = [s \in Sessions |-> NoCheckpoint]
    /\ compiled_graph = FALSE
    /\ gameplay_state = [initialize_gameplay_phase("s1") EXCEPT !.turn_number = 1]
    /\ \E input \in ResolveInputs : hist = [NoHist EXCEPT !.resolved = <<input>>]
    /\ pc = "step2"
    /\ locals = NoLocals
    /\ client = [s \in Sessions |-> NoClient(s)]
    /\ proc = NoProc
    /\ suspended = <<>>
    /\ session_db = create_session(NoSessionDb, "s1")
    /\ SvcIdle

\* the loop body of step 2 for the action, with the d20 that comes up
ValidateAction ==
    /\ pc = "step2"
    /\ \E d20 \in D20 :
         LET input == hist.resolved[1]
             token == validate_action(gameplay_state.turn_number, 0,
                                      input.action, input.player, d20)
         IN  /\ locals' = [locals EXCEPT !.tokens = <<token>>]
             /\ gameplay_state' = [gameplay_state EXCEPT !.outcome_tokens = <<token>>]
    /\ pc' = after_step("step2")
    /\ UNCHANGED <<svcVars, routerVars, suspended, session_db, graphVars, store, compiled_graph,
                   client, proc, hist>>

NextResolve == ValidateAction

SpecResolve == InitResolve /\ [][NextResolve]_vars

(***************************************************************************)
(* Specification of intent classification: _classify_intent applied to     *)
(* descriptions made of a verb and what it is aimed at                     *)
(***************************************************************************)
\* w in desc_lower: the word occurs somewhere in the string
Contains(s, w) ==
    \E i \in 0..(Len(s) - Len(w)) : SubSeq(s, i + 1, i + Len(w)) = w

\* the keyword lists of _classify_intent, in the order of its branches
IntentKeywords ==
    << [intent_type |-> "attack",
        words |-> {<<"a", "t", "t", "a", "c", "k">>,
                   <<"h", "i", "t">>,
                   <<"s", "t", "r", "i", "k", "e">>,
                   <<"s", "w", "i", "n", "g">>}],
       [intent_type |-> "cast_spell",
        words |-> {<<"c", "a", "s", "t">>,
                   <<"s", "p", "e", "l", "l">>,
                   <<"m", "a", "g", "i", "c">>}],
       [intent_type |-> "dialogue",
        words |-> {<<"t", "a", "l", "k">>,
                   <<"s", "a", "y">>,
                   <<"a", "s", "k">>,
                   <<"n", "e", "g", "o", "t", "i", "a", "t", "e">>}],
       [intent_type |-> "investigate",
        words |-> {<<"c", "h", "e", "c", "k">>,
                   <<"s", "e", "a", "r", "c", "h">>,
                   <<"l", "o", "o", "k">>,
                   <<"e", "x", "a", "m", "i", "n", "e">>,
                   <<"i", "n", "v", "e", "s", "t", "i", "g", "a", "t", "e">>}],
       [intent_type |-> "move",
        words |-> {<<"m", "o", "v", "e">>,
                   <<"g", "o">>,
                   <<"w", "a", "l", "k">>,
                   <<"r", "u", "n">>}],
       [intent_type |-> "defend",
        words |-> {<<"d", "e", "f", "e", "n", "d">>,
                   <<"b", "l", "o", "c", "k">>,
                   <<"s", "h", "i", "e", "l", "d">>}] >>

\* _classify_intent: the first branch one of whose words occurs in the
\* description in lower case, UNKNOWN when there is none
classify_intent(action_description) ==
    LET desc_lower == lower(action_description)
        matches(k) == \E w \in IntentKeywords[k].words : Contains(desc_lower, w)
        hits == {k \in 1..Len(IntentKeywords) : matches(k)}
    IN  IF hits = {} THEN "unknown"
        ELSE IntentKeywords[CHOOSE k \in hits : \A j \in hits : k <= j].intent_type

\* the verbs of the descriptions: every keyword and three other verbs
Verbs ==
    UNION { IntentKeywords[k].words : k \in 1..Len(IntentKeywords) }
    \cup {<<"w", "a", "i", "t">>, <<"s", "i", "n", "g">>, <<"d", "a", "n", "c", "e">>}

\* what the verb is aimed at
Objects ==
    {<<>>,
     <<" ", "t", "h", "e", " ", "g", "o", "b", "l", "i", "n">>,
     <<" ", "t", "h", "e", " ", "a", "t", "t", "a", "c", "k">>,
     <<" ", "t", "h", "e", " ", "c", "a", "s", "t", "l", "e">>,
     <<" ", "t", "h", "e", " ", "r", "o", "o", "m">>,
     <<" ", "f", "o", "r", "w", "a", "r", "d">>}

\* the descriptions handed to the classifier, with how they were built
Descriptions ==
    { [verb |-> verb, object |-> object,
       description |-> ApplyCasing(verb \o object, casing)] :
        verb \in Verbs, object \in Objects, casing \in Casings }

InitClassify ==
    /\ RouterIdle
    /\ GraphIdle
    /\ store = [s \in Sessions |-> NoCheckpoint]
    /\ compiled_graph = FALSE
    /\ gameplay_state = [initialize_gameplay_phase("s1") EXCEPT !.turn_number = 1]
    /\ \E input \in Descriptions : hist = [NoHist EXCEPT !.resolved = <<input>>]
    /\ pc = "step1"
    /\ locals = NoLocals
    /\ client = [s \in Sessions |-> NoClient(s)]
    /\ proc = NoProc
    /\ suspended = <<>>
    /\ session_db = create_session(NoSessionDb, "s1")
    /\ SvcIdle

\* step 1 for a player's action: the action dict with the classified intent
ClassifyAction ==
    /\ pc = "step1"
    /\ LET description == hist.resolved[1].description
           action == [intent_type |-> classify_intent(description),
                      description |-> description]
       IN  /\ locals' = [locals EXCEPT !.player_actions = <<action>>]
           /\ gameplay_state' = [gameplay_state EXCEPT !.player_actions = <<action>>]
    /\ pc' = after_step("step1")
    /\ UNCHANGED <<svcVars, routerVars, suspended, session_db, graphVars, store,
                   compiled_graph, client, proc, hist>>

NextClassify == ClassifyAction

SpecClassify == InitClassify /\ [][NextClassify]_vars

(***************************************************************************)
(* Specification of new sessions: users of the console and of the chat     *)
(* front end start new games under names they enter, over one sessions     *)
(* table and one checkpoint store                                          *)
(***************************************************************************)
\* s with its leading characters of the set dropped
RECURSIVE drop_leading(_, _)
drop_leading(s, chars) ==
    IF s # <<>> /\ s[1] \in chars THEN drop_leading(Tail(s), chars) ELSE s

\* re.sub(r"[chars]+", "_", s): every run of characters of the set becomes
\* one underscore
RECURSIVE sub_runs(_, _)
sub_runs(s, chars) ==
    IF s = <<>> THEN <<>>
    ELSE IF s[1] \in chars
         THEN <<"_">> \o sub_runs(drop_leading(s, chars), chars)
         ELSE <<s[1]>> \o sub_runs(Tail(s), chars)

\* str.strip("_")
strip_underscores(s) ==
    LET keep == {i \in 1..Len(s) : s[i] # "_"}
    IN  IF keep = {} THEN <<>>
        ELSE LET lo == CHOOSE i \in keep : \A j \in keep : i <= j
                 hi == CHOOSE i \in keep : \A j \in keep : j <= i
             IN  SubSeq(s, lo, hi)

\* derive_session_id_from_name, and the same lines of
\* prompt_for_session_name: lower case, runs of whitespace, of hyphens and
\* of underscores become one underscore, underscores at the ends are dropped
derive_session_id_from_name(session_name) ==
    strip_underscores(
        sub_runs(sub_runs(sub_runs(lower(session_name), Whitespace), {"-"}), {"_"}))

\* the characters of the names entered
NameChars == {"A", "a", " ", "-"}

\* the names a user enters for a new session: stripped of whitespace at the
\* ends, and with a letter in them, so that the derived id is not empty
SessionNames ==
    { name \in UNION { [1..k -> NameChars] : k \in 1..MaxNameLen } :
        /\ strip(name) = name
        /\ derive_session_id_from_name(name) # <<>> }

SessionIds == { derive_session_id_from_name(name) : name \in SessionNames }

\* what initialize_world leaves under the thread id: the state of the new
\* game, its players added to those of the checkpoint the thread has
new_game_checkpoint(checkpoint, session_id, session_name) ==
    LET state == [initialize_game_state(session_id) EXCEPT
                     !.metadata = With(@, "session_name", session_name),
                     !.world = BuiltWorld]
    IN  Checkpoint(AddPlayers([state EXCEPT !.players =
                                  IF checkpoint.exists
                                  THEN checkpoint.values.players ELSE <<>>],
                              Roster))

InitNewSession ==
    /\ RouterIdle
    /\ GraphIdle
    /\ compiled_graph = FALSE
    /\ gameplay_state = NoGameplayState
    /\ pc = "idle"
    /\ locals = NoLocals
    /\ client = [s \in Sessions |-> NoClient(s)]
    /\ proc = NoProc
    /\ hist = NoHist
    /\ suspended = <<>>
    /\ store = [id \in SessionIds |-> NoCheckpoint]
    /\ session_db = [id \in SessionIds |-> NoSessionRow]
    /\ SvcIdle

\* the new game of the session id: initialize_world, then create_session
StartSession(front_end, session_id, session_name) ==
    LET checkpoint == new_game_checkpoint(store[session_id], session_id, session_name)
    IN  /\ Len(hist.started) < MaxNewSessions
        /\ store' = [store EXCEPT ![session_id] = checkpoint]
        /\ session_db' = create_session(session_db, session_id)
        /\ hist' = [hist EXCEPT !.started =
                      Append(@, [front_end |-> front_end,
                                 session_id |-> session_id,
                                 session_name |-> session_name,
                                 checkpoint |-> checkpoint])]
        /\ UNCHANGED <<svcVars, routerVars, suspended, graphVars, compiled_graph,
                       gameplay_state, pc, locals, client, proc>>

\* console: prompt_for_session_name with the name entered, then the new game
\* of run_game_loop.  When a session of the id exists the user is asked
\* whether to try a different name, and the id is taken when the answer is no
NewGameMain ==
    \E session_name \in SessionNames, try_different \in BOOLEAN :
        LET session_id == derive_session_id_from_name(session_name)
        IN  /\ session_db[session_id].exists => ~try_different
            /\ StartSession("main", session_id, session_name)

\* chat: start_new_game with the name entered
NewGameChainlit ==
    \E session_name \in SessionNames :
        StartSession("chainlit", derive_session_id_from_name(session_name),
                     session_name)

NextNewSession == NewGameMain \/ NewGameChainlit

SpecNewSession == InitNewSession /\ [][NextNewSession]_vars

(***************************************************************************)
(* Specification of the resolver under replay: action_resolver and judge   *)
(* of the master graph, with the players' hit points and locations and     *)
(* with the ActionOutcome the model call returns in each run               *)
(***************************************************************************)
\* world.locations: the ids a new_location_id is looked up in
LocationIds == {"loc_1", "loc_2"}

\* a Player: its id, stats.current_hit_points and location_id
NewPlayer(id) == [id |-> id, current_hit_points |-> 10, location_id |-> "loc_1"]

\* the ActionOutcome values the structured model call can return for the
\* action of player p1: stat_changes is empty or sets hp, new_location_id
\* is None or a location id
ActionOutcomes ==
    { [stat_changes |-> changes, new_location_id |-> loc] :
        changes \in {<<>>} \cup
                    { <<[target_id |-> "p1", stat_name |-> "hp", new_value |-> v]>> :
                        v \in {4, 7} },
        loc \in {"None", "loc_2"} }

\* the index of the entry {p.id: p for p in players} holds for the id: the
\* last one with that id
LastIndexOf(players, id) ==
    CHOOSE i \in 1..Len(players) :
        /\ players[i].id = id
        /\ \A j \in (i + 1)..Len(players) : players[j].id # id

\* list(player_map.values()): one player per id, in the order in which the
\* ids first occur, each the last entry with its id
player_map_values(players) ==
    LET ids == UniqueById([i \in 1..Len(players) |-> players[i].id])
    IN  [k \in 1..Len(ids) |-> players[LastIndexOf(players, ids[k])]]

\* resolve_action from the loop over stat_changes on: the Player objects of
\* state["players"] that the map holds are changed in place
apply_outcome(players, player_id, outcome) ==
    LET hit(p) ==
            IF /\ outcome.stat_changes # <<>>
               /\ outcome.stat_changes[1].target_id = p.id
               /\ outcome.stat_changes[1].stat_name = "hp"
            THEN [p EXCEPT !.current_hit_points = outcome.stat_changes[1].new_value]
            ELSE p
        moved(p) ==
            IF /\ outcome.new_location_id # "None"
               /\ outcome.new_location_id \in LocationIds
               /\ p.id = player_id
            THEN [p EXCEPT !.location_id = outcome.new_location_id]
            ELSE p
    IN  [i \in 1..Len(players) |->
            IF i = LastIndexOf(players, players[i].id)
            THEN moved(hit(players[i]))
            ELSE players[i]]

\* the players a roster of the replay runs starts with
ReplayRosters == { <<NewPlayer("p1")>>, <<NewPlayer("p1"), NewPlayer("p2")>> }

InitReplay ==
    /\ RouterIdle
    /\ \E roster \in ReplayRosters :
         /\ entry = [initialize_game_state("s1") EXCEPT
                        !.world = BuiltWorld, !.players = roster,
                        !.current_action = TRUE,
                        !.response_type = StrValue(WordChars.action)]
         /\ chan = entry
    /\ node = "action_resolver"
    /\ trace = <<"dm_planner">>
    /\ thread = "s1"
    /\ pending = {}
    /\ created = {}
    /\ SessIdle
    /\ store = [s \in Sessions |-> NoCheckpoint]

\* node action_resolver: the model is called, its outcome is applied to the
\* players, and the dict returned goes through the channels
ResolveAction ==
    /\ node = "action_resolver"
    /\ Len(hist.resolved) <= MaxReplays
    /\ \E outcome \in ActionOutcomes :
         LET players == apply_outcome(chan.players, "p1", outcome)
             c == AddPlayers([chan EXCEPT !.players = players,
                                          !.last_outcome = TRUE],
                             player_map_values(players))
         IN  /\ chan' = c
             /\ store' = [store EXCEPT ![thread] = Checkpoint(c)]
             /\ hist' = [hist EXCEPT !.resolved =
                           Append(@, [outcome |-> outcome,
                                      players |-> player_map_values(c.players)])]
    /\ trace' = Append(trace, "action_resolver")
    /\ node' = Successor("action_resolver")
    /\ UNCHANGED <<svcVars, routerVars, suspended, session_db, entry, thread, fanVars, compiled_graph,
                   gameplay_state, pc, locals, client, proc>>

\* node judge and the conditional edge route_judge
JudgeVerdict ==
    /\ node = "judge"
    /\ \E verdict \in evaluate_turn(chan) :
         LET c == [chan EXCEPT !.last_verdict = verdict]
         IN  /\ chan' = c
             /\ store' = [store EXCEPT ![thread] = Checkpoint(c)]
             /\ node' = route_judge(c).next
    /\ trace' = Append(trace, "judge")
    /\ UNCHANGED <<svcVars, routerVars, suspended, session_db, entry, thread, fanVars, sessVars>>

NextReplay == ResolveAction \/ JudgeVerdict

SpecReplay == InitReplay /\ [][NextReplay]_vars

(***************************************************************************)
(* Specification of the scene-transition check on pacing metrics of every  *)
(* kind: the check is applied once to a counter, a maximum and a tension   *)
(***************************************************************************)
PacingInputs ==
    { [PacingMetrics EXCEPT !.turns_in_current_scene = turns,
                            !.max_turns_per_scene = maximum,
                            !.current_tension = tension] :
        turns \in 0..MaxSceneTurns, maximum \in {1, 6, 10}, tension \in 0..10 }

InitTransition ==
    /\ RouterIdle
    /\ GraphIdle
    /\ store = [s \in Sessions |-> NoCheckpoint]
    /\ compiled_graph = FALSE
    /\ \E pacing \in PacingInputs :
         /\ gameplay_state = [initialize_gameplay_phase("s1") EXCEPT !.pacing = pacing]
         /\ hist = [NoHist EXCEPT !.call.pre_gameplay =
                       [initialize_gameplay_phase("s1") EXCEPT !.pacing = pacing]]
    /\ pc = "idle"
    /\ locals = NoLocals
    /\ client = [s \in Sessions |-> NoClient(s)]
    /\ proc = NoProc
    /\ suspended = <<>>
    /\ session_db = create_session(NoSessionDb, "s1")
    /\ SvcIdle

\* the check of step 7 applied to the pacing metrics
CheckSceneTransition ==
    /\ gameplay_state.scene_transitions = <<>>
    /\ gameplay_state' = step7_check_scene_transition(gameplay_state)
    /\ UNCHANGED <<svcVars, routerVars, suspended, session_db, graphVars, store, compiled_graph, pc,
                   locals, client, proc, hist>>

NextTransition == CheckSceneTransition

SpecTransition == InitTransition /\ [][NextTransition]_vars

(***************************************************************************)
(* Specification of the context readers: a memory with some recent events  *)
(* and a hub with some messages are read with every lookback and limit     *)
(***************************************************************************)
\* the largest number of events and messages held when the readers are called
MaxItems == 5

\* the largest lookback and limit asked for
MaxLookback == 6

\* the n-th event recorded and the n-th message broadcast
EventNo(n) == [event_id |-> <<1, n>>, turn_number |-> 1]
MessageNo(n) == [sender |-> "Story Architect", message_type |-> "narrative_update",
                 content |-> n]

InitReaders ==
    /\ RouterIdle
    /\ GraphIdle
    /\ store = [s \in Sessions |-> NoCheckpoint]
    /\ compiled_graph = FALSE
    /\ \E n \in 0..MaxItems :
         gameplay_state =
           [initialize_gameplay_phase("s1") EXCEPT
              !.turn_number = 1,
              !.recent_events = [i \in 1..n |-> EventNo(i)],
              !.chronicle = [i \in 1..n |-> EventNo(i)]]
    /\ \E m \in 0..MaxItems :
         hub = [NewHub(default_max_history) EXCEPT
                  !.message_queue = [i \in 1..m |-> MessageNo(i)],
                  !.agent_memory["Story Architect"] = [i \in 1..m |-> MessageNo(i)]]
    /\ links = <<>>
    /\ structured = NoStructured
    /\ returned = NoReturn
    /\ hist = NoHist
    /\ pc = "idle"
    /\ locals = NoLocals
    /\ client = [s \in Sessions |-> NoClient(s)]
    /\ proc = NoProc
    /\ suspended = <<>>
    /\ session_db = create_session(NoSessionDb, "s1")

\* memory.get_context_window(lookback)
GetContextWindow ==
    /\ \E lookback \in 0..MaxLookback :
         returned' = [call |-> "get_context_window", asked |-> lookback,
                      value |-> get_context_window(gameplay_state.recent_events,
                                                   lookback)]
    /\ UNCHANGED <<routerVars, graphVars, store, sessVars, hub, links, structured>>

\* hub.get_context_for_agent(name, limit)
GetContextForAgent ==
    /\ \E agent_name \in Senders, limit \in 0..MaxLookback :
         returned' = [call |-> "get_context_for_agent", asked |-> limit,
                      value |-> get_context_for_agent(hub.message_queue,
                                                      agent_name, limit)]
    /\ UNCHANGED <<routerVars, graphVars, store, sessVars, hub, links, structured>>

NextReaders == GetContextWindow \/ GetContextForAgent

SpecReaders == InitReaders /\ [][NextReaders]_vars

(***************************************************************************)
(* Specification of the event log: log_event is called again and again on  *)
(* the gameplay state of one session, in one turn and in successive turns  *)
(***************************************************************************)
\* gameplay_state.log_event(...)
LogEvent ==
    /\ Len(gameplay_state.chronicle) < MaxEvents
    /\ gameplay_state' = log_event(gameplay_state)
    /\ UNCHANGED <<svcVars, routerVars, suspended, session_db, graphVars, store,
                   compiled_graph, pc, locals, client, proc, hist>>

NextLog == LogEvent \/ NextTurnOfMemory

SpecLog == InitMemory /\ [][NextLog]_vars

(***************************************************************************)
(* Specification of the context hub: agents broadcast messages on a hub    *)
(* constructed with some max_history                                       *)
(***************************************************************************)
\* the largest number of broadcasts followed
MaxBroadcasts == 5

\* the largest max_history a hub is constructed with, the default aside
MaxHistory == 3

InitHub ==
    /\ RouterIdle
    /\ GraphIdle
    /\ SessIdle
    /\ store = [s \in Sessions |-> NoCheckpoint]

\* AgentContextHub(max_history): the hub is constructed before its first use
ConstructHub ==
    /\ returned = NoReturn
    /\ \E max_history \in (0..MaxHistory) \cup {default_max_history} :
         /\ hub' = NewHub(max_history)
         /\ returned' = [call |-> "AgentContextHub", asked |-> max_history]
    /\ UNCHANGED <<routerVars, graphVars, store, sessVars, links, structured>>

\* hub.broadcast(AgentMessage(sender, message_type, content))
Broadcast ==
    /\ returned # NoReturn
    /\ Len(hist.broadcasts) < MaxBroadcasts
    /\ \E sender \in Senders, message_type \in MessageType :
         LET message == [sender |-> sender, message_type |-> message_type,
                         content |-> Len(hist.broadcasts) + 1]
         IN  /\ hub' = broadcast(hub, message)
             /\ hist' = [hist EXCEPT !.broadcasts = Append(@, message)]
    /\ UNCHANGED <<routerVars, graphVars, store, compiled_graph, gameplay_state, pc,
                   locals, client, proc, suspended, session_db, links, structured,
                   returned>>

NextHub == ConstructHub \/ Broadcast

SpecHub == InitHub /\ [][NextHub]_vars

(***************************************************************************)
(* Specification of the knowledge graph: relations are added between a few *)
(* entities and paths are searched between them                            *)
(***************************************************************************)
\* the largest number of links added
MaxLinks == 3

\* the largest max_depth asked for (the default of find_path is 3)
MaxDepth == 3

\* the entity ids relations are added between
Entities == {"entity_0", "entity_1", "entity_2", "entity_3"}

InitPaths ==
    /\ RouterIdle
    /\ GraphIdle
    /\ SessIdle
    /\ store = [s \in Sessions |-> NoCheckpoint]

\* knowledge_graph.add_relation(source, "relates_to", target)
AddRelation ==
    /\ returned = NoReturn
    /\ Len(links) < MaxLinks
    /\ \E source \in Entities, target \in Entities :
         links' = Append(links, [source |-> source, relation |-> "relates_to",
                                 target |-> target])
    /\ UNCHANGED <<routerVars, graphVars, store, sessVars, hub, structured, returned>>

\* knowledge_graph.find_path(start, end, max_depth), once the graph is built
FindPath ==
    /\ returned = NoReturn
    /\ \E start \in Entities, end \in Entities, max_depth \in 1..MaxDepth :
         returned' = [call |-> "find_path", start |-> start, end |-> end,
                      max_depth |-> max_depth, links |-> links,
                      value |-> find_path(links, start, end, max_depth)]
    /\ UNCHANGED <<routerVars, graphVars, store, sessVars, hub, links, structured>>

NextPaths == AddRelation \/ FindPath

SpecPaths == InitPaths /\ [][NextPaths]_vars

(***************************************************************************)
(* Specification of structured output: get_structured_output is called     *)
(* with some max_retries and a model that answers in any way, attempt      *)
(* after attempt                                                           *)
(***************************************************************************)
\* the largest max_retries a call is made with
MaxRetries == 4

InitStructured ==
    /\ RouterIdle
    /\ GraphIdle
    /\ SessIdle
    /\ store = [s \in Sessions |-> NoCheckpoint]

\* get_structured_output(llm, messages, output_model, max_retries) is called
CallStructuredOutput ==
    /\ returned = NoReturn
    /\ \E max_retries \in 0..MaxRetries :
         structured' = [NoStructured EXCEPT !.max_retries = max_retries]
    /\ returned' = [call |-> "get_structured_output", result |-> "running"]
    /\ UNCHANGED <<routerVars, graphVars, store, sessVars, hub, links>>

\* one pass of the loop: the model is invoked and its reply is parsed and
\* validated
Attempt ==
    /\ returned.call = "get_structured_output" /\ returned.result = "running"
    /\ in_range(structured.attempt, structured.max_retries)
    /\ \E reply \in Replies :
         /\ structured' = [structured EXCEPT !.invoked = @ + 1,
                                             !.replies = Append(@, reply),
                                             !.attempt = @ + 1]
         /\ returned' = IF attempt_outcome(reply) = "return"
                        THEN [returned EXCEPT !.result = "instance"]
                        ELSE returned
    /\ UNCHANGED <<routerVars, graphVars, store, sessVars, hub, links>>

\* the loop has run out: raise ValueError(error_message)
RetriesExhausted ==
    /\ returned.call = "get_structured_output" /\ returned.result = "running"
    /\ ~in_range(structured.attempt, structured.max_retries)
    /\ returned' = [returned EXCEPT !.result = "ValueError"]
    /\ UNCHANGED <<routerVars, graphVars, store, sessVars, hub, links, structured>>

NextStructured == CallStructuredOutput \/ Attempt \/ RetriesExhausted

\* every awaited model call and every backoff sleep comes to an end
SpecStructured ==
    InitStructured /\ [][NextStructured]_vars /\ WF_vars(NextStructured)

(***************************************************************************)
(* Properties of the graph run                                             *)
(***************************************************************************)
Count(seq, x) == Cardinality({i \in 1..Len(seq) : seq[i] = x})
Last(seq) == seq[Len(seq)]
IsPrefix(p, q) == Len(p) <= Len(q) /\ SubSeq(q, 1, Len(p)) = p
Distinct(seq) == \A i, j \in 1..Len(seq) : i # j => seq[i] # seq[j]

\* C1: within one run the router after judge sends control back to
\* action_resolver at most max_retries (2) times, and after the retries are
\* used up the judge is followed by world_engine_update.
C1_RetryBound ==
    /\ Count(trace, "action_resolver") <= 1 + max_retry_attempts
    /\ (trace # <<>> /\ Last(trace) = "judge"
          /\ Count(trace, "action_resolver") = 1 + max_retry_attempts)
       => node = "world_engine_update"

\* C6: after the character fan-out of an initialization run the roster holds
\* exactly one player per requested concept and the ids are pairwise distinct.
C6_RosterOnePerConceptDistinct ==
    (entry.players = <<>> /\ Count(trace, "player_creator") = 1)
    => /\ Len(chan.players) = entry.setting.player_concepts
       /\ Distinct(chan.players)

\* C8: route_dm_plan returns action_resolver for "action", lore_builder_question
\* for "question" and exit_check for every other value, whatever the letter
\* case and the surrounding whitespace of the value.
C8_RouteDmPlanTotal ==
    rout # "pending" =>
        rout = CASE rin.word = "action" -> "action_resolver"
                 [] rin.word = "question" -> "lore_builder_question"
                 [] OTHER -> "exit_check"

C8_Witness ==
    /\ rout = "action_resolver"
    /\ rin.casing = "upper"
    /\ Len(rin.value.s) > Len(WordChars.action)

\* C9 as stated: every run of the turn graph that reaches END has executed
\* dm_outcome.
C9_EndsAtNarration ==
    (node = "__end__" /\ Count(trace, "dm_planner") = 1)
    => Count(trace, "dm_outcome") >= 1

\* C9 amended: a run of the turn graph that reaches END on the action or the
\* question route executed dm_outcome exactly once, as its last stage; on the
\* exit or unmatched route it executed exit_check as its only stage after
\* dm_planner and never dm_outcome.
C9_NarrationUnlessExit ==
    (node = "__end__" /\ trace # <<>> /\ trace[1] = "dm_planner")
    => /\ Len(trace) >= 2
       /\ IF trace[2] \in {"action_resolver", "lore_builder_question"}
          THEN Last(trace) = "dm_outcome" /\ Count(trace, "dm_outcome") = 1
          ELSE trace = <<"dm_planner", "exit_check">>

C9_Witness ==
    /\ node = "__end__"
    /\ Len(trace) >= 2 /\ trace[2] = "action_resolver"
    /\ Count(trace, "action_resolver") = 2
    /\ Last(trace) = "dm_outcome"

SetupOrder == <<"story_architect", "lore_builder", "world_engine",
                "player_creator", "initial_dm">>

Uninitialized(world) == ~world.present \/ world.locations = 0

\* C10: a run entered with an uninitialized world executes story_architect,
\* lore_builder, world_engine, player_creator and initial_dm, each once and in
\* that order, and ends without entering a gameplay stage.
C10_SetupPipeline ==
    (Uninitialized(entry.world) /\ node # "__start__")
    => /\ IsPrefix(trace, SetupOrder)
       /\ node \in Nodes => node = SetupOrder[Len(trace) + 1]
       /\ node = "__end__" => trace = SetupOrder

C10_Witness ==
    /\ Uninitialized(entry.world)
    /\ node = "__end__"
    /\ Len(chan.players) = entry.setting.player_concepts

(***************************************************************************)
(* Properties of the session lifecycle and of execute_turn                 *)
(***************************************************************************)
LoadAttempted(s) == client[s].phase \in {"resumed", "load_none", "load_failed"}

\* C2: after N >= 1 successful execute_turn calls on a session, loading the
\* session from the checkpoint store returns a state, its turn number is N and
\* its chronicle has at least N events, also after a restart of the process.
C2_ResumeReturnsCompletedTurns ==
    \A s \in Sessions :
        (hist.completed[s] >= 1 /\ LoadAttempted(s))
        => /\ client[s].phase = "resumed"
           /\ client[s].state.metadata.turn = hist.completed[s]
           /\ Len(Get(client[s].state, "campaign_chronicle", <<>>))
                >= hist.completed[s]

\* C3: when a stage raised during execute_turn, the executor's state (turn
\* number, pacing metrics, session memory) and the state dict the caller holds
\* are what they were when the failed call was made.
C3_FailedTurnLeavesNoTrace ==
    (pc = "idle" /\ hist.call.result = "raised")
    => /\ gameplay_state = hist.call.pre_gameplay
       /\ client[hist.call.session].state = hist.call.pre_state

C5_ResumedSessionContinues ==
    (hist.call.result # "none" /\ hist.call.fresh)
    => /\ hist.call.stage # "entry"
       /\ Snapshot(hist.call.pre_gameplay) = hist.lastgood[hist.call.session]

\* C7: after a failed initialize_world the checkpoint store holds for that
\* session what it held before the call: nothing, for a new session.
C7_FailedInitLeavesNoCheckpoint ==
    \A s \in Sessions :
        client[s].phase = "init_failed" => store[s] = hist.pre_store[s]



(***************************************************************************)
(* Properties of one execute_turn call                                     *)
(***************************************************************************)
\* the seven phases of a turn: action intake, resolution, world update,
\* narration, pacing/director, event recording, scene-transition check
SevenPhases == <<"step1", "step2", "step3", "step4", "step5", "step6", "step7">>

CallState == client[locals.session].state

TurnReturned == pc = "idle" /\ hist.call.result = "ok"

\* the caller's dict holds the outcome of the turn in progress
NarrationStored ==
    /\ CallState.last_outcome
    /\ CallState.metadata.turn = gameplay_state.turn_number

\* the result of a phase is in the turn state (gameplay_state or the dict)
ResultStored(step) ==
    CASE step = "step1" -> gameplay_state.player_actions = locals.player_actions
      [] step = "step2" -> /\ gameplay_state.outcome_tokens = locals.tokens
                           /\ "outcome_tokens" \in DOMAIN CallState
                           /\ CallState.outcome_tokens = locals.tokens
      [] step = "step3" -> /\ gameplay_state.world_state_deltas = locals.state_changes
                           /\ "last_world_changes" \in DOMAIN CallState
                           /\ CallState.last_world_changes = locals.state_changes
      [] step = "step4" -> NarrationStored
      [] step = "step5" -> gameplay_state.dm_directives = locals.directives
      [] step = "step6" ->
           \A i \in 1..Len(locals.tokens) :
             \E j \in 1..Len(gameplay_state.chronicle) :
                gameplay_state.chronicle[j].event_id = locals.tokens[i].action_id

\* the phases run so far are the first phases of the seven, in order, and the
\* call is at the phase that follows them
PhasesInOrder ==
    /\ IsPrefix(locals.phases, SevenPhases)
    /\ \A k \in 1..7 : pc = SevenPhases[k] => Len(locals.phases) = k - 1
    /\ TurnReturned => locals.phases = SevenPhases

\* C11: within one execute_turn call the seven phases run in the order action
\* intake, resolution, world update, narration, pacing/director, event
\* recording, scene-transition check, each exactly once, and each phase starts
\* only after the result of the phase before it is stored in the turn state.
C11_PhasesOrderedResultsStored ==
    /\ PhasesInOrder
    /\ \A k \in 1..6 : pc = SevenPhases[k + 1] => ResultStored(SevenPhases[k])

\* C11 as the code has it: the phases run in that order, each once; the
\* results of phases 1, 2, 3, 5 and 6 are in the turn state before the next
\* phase starts, while the narration of phase 4 is a local of the call during
\* phases 5 to 7 and reaches the dict (last_outcome) only when the call returns.
C11_PhasesOrderedNarrationLocal ==
    /\ PhasesInOrder
    /\ \A k \in {1, 2, 3, 5, 6} : pc = SevenPhases[k + 1] => ResultStored(SevenPhases[k])
    /\ pc \in {"step5", "step6", "step7"} => locals.narrated /\ ~NarrationStored
    /\ TurnReturned => NarrationStored

C11_Witness ==
    /\ TurnReturned
    /\ locals.phases = SevenPhases
    /\ Len(locals.tokens) = 2
    /\ NarrationStored
    /\ gameplay_state.turn_number = 2

(***************************************************************************)
(* Properties of the front end                                             *)
(***************************************************************************)
NoOtherTurnBegins ==
    /\ gameplay_state'.turn_number = gameplay_state.turn_number
    /\ gameplay_state'.player_actions = gameplay_state.player_actions
    /\ gameplay_state'.outcome_tokens = gameplay_state.outcome_tokens
    /\ InFlight' <= 1

\* C12: for one session at most one turn is in flight: while an execute_turn
\* call waits inside a stage, no other execute_turn call of the session
\* begins, so the turn number is not incremented and the turn's actions and
\* tokens are not overwritten before the waiting call is done.
C12_OneTurnInFlight == [][(pc \in AwaitPoints) => NoOtherTurnBegins]_vars

(***************************************************************************)
(* Properties of two sessions                                              *)
(***************************************************************************)
\* the session the call in progress, or the call that begins, works for
Operating ==
    LET of(p, t, l) == IF p = "init" THEN t ELSE l.session
    IN  IF pc = "idle" THEN of(pc', thread', locals') ELSE of(pc, thread, locals)

\* what the process holds of a session: its state dict and, when the
\* executor's gameplay state is that of the session, its turn number, its
\* pacing metrics and its chronicle
SessionView(s) ==
    LET own == gameplay_state.initialized /\ gameplay_state.session_id = s
    IN  [ dict |-> client[s].state,
          gameplay |-> own,
          values |-> Snapshot(IF own THEN gameplay_state ELSE NoGameplayState) ]

\* C13: sessions are independent: under every interleaving of
\* initialize_world and execute_turn calls on two session ids, an operation
\* on one session never changes the turn number, the pacing metrics or the
\* chronicle of the other one.
C13_SessionsIndependent ==
    [][\A s \in Sessions : (s # Operating) => (SessionView(s)' = SessionView(s))]_vars

(***************************************************************************)
(* Properties of execute_turn on states that are not ready for a turn      *)
(***************************************************************************)
\* the state the call was given has no players or a world that was not built
NotReady(state) == state.players = <<>> \/ state.world = NewWorld

\* C14: execute_turn on a state with an empty player roster or with an
\* uninitialized world fails as a precondition failure: no phase of the turn
\* is executed, turn_number is unchanged and nothing is recorded in memory.
C14_PreconditionFailure ==
    (hist.call.result # "none" /\ NotReady(hist.call.pre_state)) =>
        /\ locals.phases = <<>>
        /\ hist.call.result # "ok"
        /\ gameplay_state.turn_number = hist.call.pre_gameplay.turn_number
        /\ gameplay_state.chronicle = hist.call.pre_gameplay.chronicle

(***************************************************************************)
(* Properties of session loading                                           *)
(***************************************************************************)
\* C15: loading a session id for which the checkpoint store holds no state
\* gives the caller a not-found value and raises nothing, in the command-line
\* front end and in the chat front end alike.
C15_NotFoundIsReturned ==
    \A s \in Sessions :
        (LoadAttempted(s) /\ ~store[s].exists) => client[s].phase = "load_none"

(***************************************************************************)
(* Properties of stage failures                                            *)
(***************************************************************************)
\* a stage collaborator raised an exception during the call in progress
StageRaised == hist.call.result # "none" /\ hist.call.stage \in {"dm", "director"}

\* C16: an exception raised by a stage collaborator during a turn, whatever
\* its type, ends the turn as a failure that reaches the caller: the call
\* runs no further step, does not return normally and uses no fallback value.
C16_StageExceptionEndsTurn ==
    StageRaised => /\ pc \in {"raised", "idle"}
                   /\ hist.call.result # "ok"
                   /\ ~locals.fallback

(***************************************************************************)
(* Properties of the retry counter                                         *)
(***************************************************************************)
\* the retry counter as route_judge reads it from a state
RetryCount(state) == Get(state, "_retry_count", 0)

InUnitRange(t) == 0 <= t /\ t <= 10

\* C18: after the pacing phase of every turn, whatever tension delta the
\* director supplied, current_tension lies in [0.0, 1.0], and so does every
\* value ever appended to tension_trajectory.
C18_TensionInUnitRange ==
    LET pacing == gameplay_state.pacing
    IN  /\ InUnitRange(pacing.current_tension)
        /\ \A i \in 1..Len(pacing.tension_trajectory) :
              InUnitRange(pacing.tension_trajectory[i])

C18_Witness ==
    LET pacing == gameplay_state.pacing
    IN  /\ pc = "step6"
        /\ "tension_adjustment" \in DOMAIN locals.directives
        /\ locals.directives.tension_adjustment = -1000
        /\ Len(pacing.tension_trajectory) = 2
        /\ pacing.tension_trajectory[1] = 10
        /\ pacing.current_tension = 0

\* the call last made has ended, by a return or by an exception
TurnEnded == pc = "idle" /\ hist.call.result \in {"ok", "raised"}

AboveMaximum(pacing) == pacing.turns_in_current_scene > pacing.max_turns_per_scene

\* C19: in every turn in which the scene-transition trigger fires at phase 7,
\* turns_in_current_scene is 0 when execute_turn returns; and over every
\* sequence of turns turns_in_current_scene is never above
\* max_turns_per_scene at the end of two consecutive turns.
C19_SceneCounterBounded ==
    /\ (TurnReturned /\ gameplay_state.scene_transitions # <<>>
                     /\ Last(gameplay_state.scene_transitions))
          => gameplay_state.pacing.turns_in_current_scene = 0
    /\ TurnEnded => ~(/\ AboveMaximum(hist.call.pre_gameplay.pacing)
                      /\ AboveMaximum(gameplay_state.pacing))

\* the pacing metrics the scene-transition check was applied to
CheckedPacing == hist.call.pre_gameplay.pacing

\* C20: should_transition_scene() is true exactly when
\* turns_in_current_scene >= max_turns_per_scene, or when
\* turns_in_current_scene > 5 and current_tension < 0.2; for every other
\* counter, maximum and tension it is false.
C20_TransitionExactlyWhen ==
    gameplay_state.scene_transitions # <<>> =>
        (Last(gameplay_state.scene_transitions)
           <=> \/ CheckedPacing.turns_in_current_scene
                    >= CheckedPacing.max_turns_per_scene
               \/ /\ CheckedPacing.turns_in_current_scene > 5
                  /\ CheckedPacing.current_tension < 2)

C20_Witness ==
    /\ gameplay_state.scene_transitions = <<TRUE>>
    /\ CheckedPacing.turns_in_current_scene = 6
    /\ CheckedPacing.max_turns_per_scene = 10
    /\ CheckedPacing.current_tension = 1
    /\ gameplay_state.pacing.turns_in_current_scene = 0

\* the events handed to add_event so far, in the order of the calls
Added == hist.added

\* C21: after k add_event calls on a SessionMemory recent_events has
\* min(20, k) entries, which are the last min(20, k) events added, in
\* insertion order, and campaign_chronicle holds all k events in insertion
\* order.
C21_RecentWindowAndChronicle ==
    LET k == Len(Added)
        n == IF k < 20 THEN k ELSE 20
    IN  /\ Len(gameplay_state.recent_events) = n
        /\ \A i \in 1..n : gameplay_state.recent_events[i] = Added[k - n + i]
        /\ gameplay_state.chronicle = Added

C21_Witness ==
    /\ Len(Added) = 22
    /\ Len(gameplay_state.recent_events) = 20
    /\ gameplay_state.recent_events[1] = Added[3]
    /\ Len(gameplay_state.chronicle) = 22

\* the session memory as it was when the call in progress began
MemoryBefore == hist.call.pre_gameplay

\* event recording has run in the call in progress (or just returned)
EventsRecorded == pc = "step7" \/ TurnReturned

\* the event of the i-th outcome token of the turn is the i-th entry after
\* the old chronicle, and the same event is in the recent window, the last
\* token's event being its last entry
EventOfToken(i) ==
    LET old == Len(MemoryBefore.chronicle)
        n == Len(locals.tokens)
        recent == gameplay_state.recent_events
        event == gameplay_state.chronicle[old + i]
    IN  /\ event.event_id = locals.tokens[i].action_id
        /\ event.turn_number = gameplay_state.turn_number
        /\ Len(recent) >= n
        /\ recent[Len(recent) - n + i] = event

\* C22: each execute_turn adds exactly one EventNode per outcome token of
\* that turn to recent_events and the same EventNode to campaign_chronicle:
\* after the event-recording phase the chronicle has grown by exactly the
\* number of outcome tokens of the turn (and before that phase it has not
\* changed).
C22_OneEventPerToken ==
    /\ pc \in {"step1", "step2", "step3", "step4", "step5", "step6"}
         => /\ gameplay_state.chronicle = MemoryBefore.chronicle
            /\ gameplay_state.recent_events = MemoryBefore.recent_events
    /\ EventsRecorded
         => /\ Len(gameplay_state.chronicle)
                 = Len(MemoryBefore.chronicle) + Len(locals.tokens)
            /\ IsPrefix(MemoryBefore.chronicle, gameplay_state.chronicle)
            /\ \A i \in 1..Len(locals.tokens) : EventOfToken(i)

C22_Witness ==
    /\ TurnReturned
    /\ Len(locals.tokens) = 2
    /\ ~locals.tokens[1].meets_dc
    /\ Len(MemoryBefore.chronicle) = 20
    /\ Len(gameplay_state.chronicle) = 22
    /\ Len(gameplay_state.recent_events) = 20

\* the step is the scene-transition check of a turn and its trigger fires
TransitionFires ==
    /\ pc = "step7"
    /\ Len(gameplay_state'.scene_transitions) = Len(gameplay_state.scene_transitions) + 1
    /\ Last(gameplay_state'.scene_transitions)

\* what a firing transition leaves as it was, and what it resets
TransitionFrame ==
    TransitionFires =>
        /\ gameplay_state'.chronicle = gameplay_state.chronicle
        /\ gameplay_state'.recent_events = gameplay_state.recent_events
        /\ gameplay_state'.turn_number = gameplay_state.turn_number
        /\ gameplay_state'.turn_number = MemoryBefore.turn_number + 1
        /\ gameplay_state'.pacing.turns_in_current_scene = 0

\* C23: a scene transition changes only the per-scene counter: in a turn
\* whose transition trigger fires, campaign_chronicle and recent_events keep
\* every entry they had, in the same order, and turn_number is not reset.
C23_TransitionKeepsMemory == [][TransitionFrame]_vars

C23_Witness ==
    /\ TurnReturned
    /\ Last(gameplay_state.scene_transitions)
    /\ gameplay_state.pacing.turns_in_current_scene = 0
    /\ gameplay_state.turn_number = 10
    /\ Len(gameplay_state.chronicle) = 20
    /\ Len(gameplay_state.recent_events) = 20

\* the outcome token step 2 made of the action, once it has
Resolved == locals.tokens # <<>>
Token == locals.tokens[1]

\* the table of difficulty classes
TableDC(intent_type) ==
    CASE intent_type = "attack" -> 12
      [] intent_type = "investigate" -> 10
      [] intent_type = "dialogue" -> 11
      [] intent_type = "cast_spell" -> 13
      [] intent_type = "move" -> 8
      [] intent_type = "defend" -> 10
      [] OTHER -> 10

\* C24: for every intent type and every roll total, the resolved outcome
\* token has meets_dc true exactly when the roll total is >= the DC of the
\* intent, with DC taken from the table attack 12, investigate 10, dialogue
\* 11, cast-spell 13, move 8, defend 10, and 10 for unknown or any other
\* intent.
C24_MeetsDcExactlyWhen ==
    Resolved =>
        /\ Token.intent_type = hist.resolved[1].action.intent_type
        /\ Token.difficulty_class = TableDC(Token.intent_type)
        /\ Token.meets_dc <=> Token.primary_roll.total >= TableDC(Token.intent_type)

C24_Witness ==
    /\ Resolved
    /\ Token.intent_type = "cast_spell"
    /\ Token.primary_roll.total = 13
    /\ Token.primary_roll.modifier = 2
    /\ Token.meets_dc

\* C25: damage is computed only on success: damage_dealt is 0 for every
\* outcome token whose meets_dc is false, and is greater than 0 for every
\* attack or cast-spell action that meets its DC (an attack with roll total
\* 15 against DC 12 yields a non-zero damage value).
C25_DamageOnlyOnSuccess ==
    Resolved =>
        /\ ~Token.meets_dc => Token.damage_dealt = 0
        /\ (Token.meets_dc /\ Token.intent_type \in {"attack", "cast_spell"})
              => Token.damage_dealt > 0

C25_Witness ==
    /\ Resolved
    /\ Token.intent_type = "attack"
    /\ Token.primary_roll.total = 15
    /\ Token.difficulty_class = 12
    /\ Token.meets_dc
    /\ Token.damage_dealt = 9

\* the runs of the resolver for the action of the turn: what each returned
\* and the players as they were after it
Runs == hist.resolved

\* C26: world update is idempotent under replay: running the resolution /
\* world-update step again for the same action (as happens when the judge
\* sends a turn back to be resolved again) yields the same world-change
\* records as running it once and does not apply any hit-point or location
\* effect a second time.
C26_ReplayIdempotent ==
    \A k \in 2..Len(Runs) :
        /\ Runs[k].outcome = Runs[1].outcome
        /\ Runs[k].players = Runs[1].players

\* the run is at the planner, which has not yet decided the route
BeforePlanner == node = "dm_planner" /\ (trace = <<>> \/ Last(trace) # "dm_planner")

\* response_type is unset: the sentinel "unknown", or no value at all
Unset(response_type) ==
    ~Truthy(response_type) \/ response_type = StrValue(WordChars.unknown)

\* C27: at the start of every turn, before the intake/planner stage decides
\* the route, response_type holds the unset sentinel ("unknown"), so the
\* route taken in a turn never depends on a response_type value left over
\* from an earlier turn or supplied already set.
C27_ResponseTypeUnsetBeforePlanner ==
    BeforePlanner => Unset(chan.response_type)

\* the new sessions started so far, in order
Started == hist.started

\* C28: a session id is never reused: for every sequence of new-session
\* requests with arbitrary session names, in either front end, every newly
\* started session gets a session_id different from that of every existing
\* session, and starting a new session never writes into an existing
\* session's checkpoint.
C28_SessionIdNeverReused ==
    /\ \A i, j \in 1..Len(Started) :
          i # j => Started[i].session_id # Started[j].session_id
    /\ \A i \in 1..Len(Started) :
          store[Started[i].session_id] = Started[i].checkpoint

\* a front end made the call that has ended
FrontEndCall == locals.caller \in {"main", "chainlit"}

\* C29: after every turn that the engine completes successfully, the front
\* end keeps the returned state and updates the session metadata with that
\* turn's number; after a turn that fails, the session metadata is not
\* written.
C29_MetadataAfterTurn ==
    /\ (TurnReturned /\ FrontEndCall)
          => /\ NarrationStored
             /\ session_db[locals.session].exists
             /\ session_db[locals.session].turn_count = CallState.metadata.turn
    /\ (pc = "idle" /\ hist.call.result = "raised" /\ FrontEndCall)
          => session_db = hist.call.pre_db

\* the description classified and the intent it was given
Classified == pc = "step2" /\ locals.player_actions # <<>>
Described == hist.resolved[1]
Intent == locals.player_actions[1].intent_type

\* the verb of the description is one of the words
NamedBy(words) == Described.verb \in words

\* C30: _classify_intent is a total, deterministic function of the
\* description that classifies an action by the keyword naming it: "attack
\* ..." is ATTACK, "cast ..." is CAST_SPELL, "talk ..." is DIALOGUE, "search
\* ..." is INVESTIGATE, "move ..." is MOVE, a description that names a defend
\* action by "defend", "block" or "shield" (such as "block the attack") is
\* DEFEND, and a description without any keyword is UNKNOWN.
C30_ClassifiedByKeyword ==
    Classified =>
        /\ Intent \in ActionIntentType
        /\ NamedBy({<<"a", "t", "t", "a", "c", "k">>}) => Intent = "attack"
        /\ NamedBy({<<"c", "a", "s", "t">>}) => Intent = "cast_spell"
        /\ NamedBy({<<"t", "a", "l", "k">>}) => Intent = "dialogue"
        /\ NamedBy({<<"s", "e", "a", "r", "c", "h">>}) => Intent = "investigate"
        /\ NamedBy({<<"m", "o", "v", "e">>}) => Intent = "move"
        /\ NamedBy({<<"d", "e", "f", "e", "n", "d">>,
                    <<"b", "l", "o", "c", "k">>,
                    <<"s", "h", "i", "e", "l", "d">>})
              => Intent = "defend"
        /\ (NamedBy({<<"w", "a", "i", "t">>, <<"s", "i", "n", "g">>, <<"d", "a", "n", "c", "e">>}) /\ Described.object = <<>>)
              => Intent = "unknown"

(***************************************************************************)
(* Properties of the context readers                                       *)
(***************************************************************************)
\* the last min(k, Len(xs)) items of xs, in order
LastItems(xs, k) ==
    LET n == IF k < Len(xs) THEN k ELSE Len(xs)
    IN  SubSeq(xs, Len(xs) - n + 1, Len(xs))

\* C31: for every lookback >= 0 get_context_window returns the last
\* min(lookback, number of recent events) events, and for every limit >= 0
\* get_context_for_agent returns the last min(limit, queue length) messages
C31_ReadersReturnLastItems ==
    /\ returned.call = "get_context_window"
         => returned.value = LastItems(gameplay_state.recent_events, returned.asked)
    /\ returned.call = "get_context_for_agent"
         => returned.value =
              [i \in 1..Len(LastItems(hub.message_queue, returned.asked)) |->
                 to_dict(LastItems(hub.message_queue, returned.asked)[i])]

(***************************************************************************)
(* Properties of the resolver and the judge                                *)
(***************************************************************************)
\* the players, one per id, as they were before the k-th run of the resolver
PlayersBeforeRun(k) ==
    IF k = 1 THEN player_map_values(entry.players) ELSE Runs[k - 1].players

\* the judge has rejected the last resolution: route_judge has sent the run
\* back to the resolver
Rejected ==
    /\ Runs # <<>>
    /\ node = "action_resolver"
    /\ Last(trace) = "judge"

\* C32: the effects of an action resolution on players (hit points,
\* location) become part of the state only after the judge has routed that
\* resolution to Proceeding; a resolution the judge rejects leaves every
\* player's hit points and location as they were before that attempt
C32_EffectsOnlyAfterProceeding ==
    Rejected =>
        player_map_values(chan.players) = PlayersBeforeRun(Len(Runs))

\* a run of the turn graph has reached END
TurnRunEnded == node = "__end__" /\ trace # <<>> /\ trace[1] = "dm_planner"

\* C33: a gameplay turn never changes who is in the roster: after a run of
\* the turn graph on any route the players list has the same length and the
\* same pairwise-distinct ids as before the run
C33_TurnKeepsRoster ==
    TurnRunEnded =>
        /\ Len(chan.players) = Len(entry.players)
        /\ Distinct(chan.players)
        /\ UniqueById(chan.players) = entry.players

\* the tension adjustment the director asks for in the directives it
\* returned: the field of its DirectorDirectives, or the key of its dict
AskedAdjustment(directives) ==
    IF "tension_adjustment" \in DOMAIN directives
    THEN directives.tension_adjustment
    ELSE IF "director_directives" \in DOMAIN directives
    THEN directives.director_directives.tension_adjustment
    ELSE 0

\* C34: the tension adjustment in the directives the director returns for a
\* turn is the delta added to current_tension in that turn's pacing phase:
\* whenever it asks for a non-zero adjustment d and current_tension + d stays
\* inside [0, 1], current_tension changes by exactly d in that turn
C34_DirectorDeltaApplied ==
    pc = "step6" =>
        LET d == AskedAdjustment(locals.directives)
            before == hist.call.pre_gameplay.pacing.current_tension
        IN  (d # 0 /\ InUnitRange(before + d))
                => gameplay_state.pacing.current_tension = before + d

(***************************************************************************)
(* Properties of the chronicle                                             *)
(***************************************************************************)
\* C35: all event_ids in a campaign chronicle are pairwise distinct, for
\* every sequence of turns and of log_event calls, including calls made
\* after recent_events has reached its cap of 20 entries
C35_EventIdsDistinct ==
    LET chronicle == gameplay_state.chronicle
    IN  \A i, j \in 1..Len(chronicle) :
            i # j => chronicle[i].event_id # chronicle[j].event_id

\* C36: every completed turn records at least one event: after any sequence
\* of N execute_turn calls that returned within one process,
\* campaign_chronicle holds at least N events, whether the actions came from
\* current_action or from the automated default action per player
C36_CompletedTurnRecordsEvent ==
    TurnEnded => Len(gameplay_state.chronicle) >= hist.completed[hist.call.session]

(***************************************************************************)
(* Properties of the context hub                                           *)
(***************************************************************************)
\* the messages broadcast on the hub so far, in order
Broadcasts == hist.broadcasts

\* C37: after any sequence of broadcasts the hub keeps at most max_history
\* messages in its history (message_queue), and the messages kept are the
\* most recent broadcasts in broadcast order: the oldest is evicted first
C37_HubKeepsMostRecent ==
    /\ Len(hub.message_queue) <= hub.max_history
    /\ hub.message_queue = LastItems(Broadcasts, hub.max_history)

C37_Witness ==
    /\ Len(Broadcasts) = 5
    /\ hub.max_history = 3
    /\ Len(hub.message_queue) = 3
    /\ hub.message_queue[1].content = 3
    /\ hub.message_queue[3].content = 5

(***************************************************************************)
(* Properties of the knowledge graph                                       *)
(***************************************************************************)
\* a link of the list joins the two entities, in either direction
Linked(ls, a, b) ==
    \E i \in 1..Len(ls) :
        \/ ls[i].source = a /\ ls[i].target = b
        \/ ls[i].source = b /\ ls[i].target = a

\* b can be reached from a over at most k links of the list
RECURSIVE ReachableWithin(_, _, _, _)
ReachableWithin(ls, a, b, k) ==
    \/ a = b
    \/ k > 0 /\ \E c \in Entities :
                  Linked(ls, a, c) /\ ReachableWithin(ls, c, b, k - 1)

\* C38: find_path(start, end, max_depth) returns a list that begins with
\* start, ends with end and in which every consecutive pair is directly
\* connected by a link, whenever end can be reached from start over at most
\* max_depth links; it returns the empty list only when no such path exists
C38_FindPathFindsPath ==
    returned.call = "find_path" =>
        LET path == returned.value
        IN  /\ path # <<>> =>
                 /\ path[1] = returned.start
                 /\ path[Len(path)] = returned.end
                 /\ \A i \in 1..(Len(path) - 1) :
                        Linked(returned.links, path[i], path[i + 1])
            /\ ReachableWithin(returned.links, returned.start, returned.end,
                               returned.max_depth)
                 => path # <<>>

(***************************************************************************)
(* Properties of structured output                                         *)
(***************************************************************************)
\* the replies the model gave to the attempts of the call, in order
ModelReplies == structured.replies

\* the attempt failed: model error, unparsable JSON or failed validation
Failed(reply) == reply \in {"model_error", "not_json", "json_invalid"}

\* what holds of the call at every moment
StructuredOutputBounded ==
    /\ structured.invoked <= structured.max_retries
    /\ structured.invoked = Len(ModelReplies)
    /\ \A i \in 1..(Len(ModelReplies) - 1) : Failed(ModelReplies[i])
    /\ returned.call = "get_structured_output" =>
         /\ returned.result = "instance" =>
              /\ ModelReplies # <<>>
              /\ ModelReplies[Len(ModelReplies)] = "json_valid"
         /\ returned.result = "ValueError" =>
              /\ structured.invoked = structured.max_retries
              /\ \A i \in 1..Len(ModelReplies) : Failed(ModelReplies[i])
         /\ returned.result = "running" =>
              \A i \in 1..Len(ModelReplies) : Failed(ModelReplies[i])

\* the call has been made and has not ended
StructuredRunning ==
    returned.call = "get_structured_output" /\ returned.result = "running"

\* the call has ended, by a return or by the ValueError
StructuredEnded ==
    /\ returned.call = "get_structured_output"
    /\ returned.result \in {"instance", "ValueError"}

\* once the call has ended no step invokes the model again
NoAttemptAfterEnd == StructuredEnded => structured' = structured

\* C39: get_structured_output invokes the model at most max_retries times
\* and then terminates: it returns an instance that passed validation, or,
\* when every attempt failed, raises ValueError; it never makes a further
\* attempt after a successful one
C39_StructuredOutputTerminates ==
    /\ []StructuredOutputBounded
    /\ StructuredRunning ~> StructuredEnded
    /\ [][NoAttemptAfterEnd]_vars

C39_Witness ==
    /\ returned.call = "get_structured_output"
    /\ returned.result = "instance"
    /\ structured.max_retries = default_max_retries
    /\ ModelReplies = <<"not_json", "json_invalid", "json_valid">>
====
